---- MODULE Spec2Model ----
(***************************************************************************)
(* The TCP listener/socket multiplexer of the desktop app                  *)
(* (desktop/tauri-app/src-tauri/src/tcp.rs): the two registries, the id    *)
(* counter, the create/send/close commands, one accept task per listener   *)
(* and one read task (pump) per accepted connection, with the peers as the *)
(* environment.                                                            *)
(*                                                                         *)
(* A u32 is kept as two 16-bit limbs <<high, low>>, so that the counter    *)
(* keeps its 32-bit width and wraps where the AtomicU32 wraps.             *)
(***************************************************************************)
EXTENDS Integers, Sequences, FiniteSets, TLC

\* ---------------------------------------------------------------- bounds
MaxListeners == 2
MaxConns == 2
MaxSends == 2
MaxPeerBytes == 2
MaxPayload == 2

ListenerSlots == 1..MaxListeners
ConnSlots == 1..MaxConns
SendSlots == 1..MaxSends

\* What the environment does in a run: how many listeners the consumer
\* creates and on which ports, how many peers connect, how many bytes each
\* sends and how its stream ends, how many sends the consumer issues and
\* whether it closes handles. A run has one of these loads.
Load(l, p, c, b, e, s, x) ==
  [listeners |-> l, ports |-> p, conns |-> c, bytes |-> b, ends |-> e,
   sends |-> s, closes |-> x]

Loads ==
  { Load(MaxListeners, {0, 8080}, MaxConns, 0, {}, 0, TRUE),
    Load(1, {0}, 1, MaxPeerBytes, {"shut", "reset"}, MaxSends, TRUE),
    Load(1, {0}, MaxConns, 1, {"shut", "reset"}, 0, TRUE),
    Load(1, {0}, MaxConns, 0, {"reset"}, MaxSends, FALSE) }

\* ---------------------------------------------------------------- u32
Limb == 65536

U32Zero == <<0, 0>>

\* TcpState::new: the counter starts at 1.
FirstId == <<0, 1>>

\* AtomicU32::fetch_add(1): the stored value after the add, wrapping at 2^32.
WrappingInc(v) ==
  IF v[2] + 1 < Limb THEN <<v[1], v[2] + 1>> ELSE <<(v[1] + 1) % Limb, 0>>

U32Less(a, b) == a[1] < b[1] \/ (a[1] = b[1] /\ a[2] < b[2])

\* The four bytes in the opposite order, least significant first.
to_be_bytes_swapped(v) ==
  <<v[2] % 256, v[2] \div 256, v[1] % 256, v[1] \div 256>>

\* u32::to_be_bytes
to_be_bytes(v) == <<v[1] \div 256, v[1] % 256, v[2] \div 256, v[2] % 256>>

\* u32::from_be_bytes, the consumer's reading of a frame's first four bytes.
from_be_bytes(b) == <<b[1] * 256 + b[2], b[3] * 256 + b[4]>>

None == <<>>

\* ---------------------------------------------------------------- state
VARIABLES
  load,        \* the load of the run (see Loads); it never changes
  next_id,     \* TcpState.next_id
  allocated,   \* the ids returned by the counter so far, in order (history)
  servers,     \* TcpState.servers: id -> listener slot of the handle
  sockets,     \* TcpState.sockets: id -> connection slot of the handle
  cpc,         \* per listener slot: position of its tcp_server_create call
  server_id,   \* per listener slot: the id of the call (None before)
  local_port,  \* per listener slot: the bound port (0 before the bind)
  apc,         \* per listener slot: position of the accept task
  aabort,      \* per listener slot: abort() was called on a running accept task
  acur,        \* per listener slot: the connection the accept loop is handling
  chan,        \* per listener slot: what the call and its accept task sent
               \* on the call's channel
  rchan,       \* per connection: what its read task sent on that channel
  cstate,      \* per connection: "free", "pending" (in a backlog), "accepted"
  clis,        \* per connection: the listener slot it connected to
  socket_id,   \* per connection: its socket id (None before)
  ppc,         \* per connection: position of the read task
  pabort,      \* per connection: abort() was called on a running read task
  peerState,   \* per connection: "open", "shut" (peer half-closed), "reset"
  peerSent,    \* per connection: the bytes the peer has sent
  rdPos,       \* per connection: how many of them the read task has read
  wire,        \* per connection: the bytes written to it, each with its sender
  wlock,       \* per connection: the send holding the writer mutex (0: free)
  spc,         \* per send slot: position of the tcp_send call
  starget,     \* per send slot: the x-socket-id header
  spayload,    \* per send slot: the body
  sconn,       \* per send slot: the connection of the writer it cloned (0: none)
  swritten,    \* per send slot: bytes of the body written so far
  sresult,     \* per send slot: "", "Ok", "NotFound", "IoError"
  sresponse,   \* per send slot: <<>>, or <<body>> once the call returned Ok(Response)
  frame,       \* send_data taken alone: its arguments and the frame it builds
  rt,          \* the framing of the native-messaging host taken alone: messages
               \* written to a buffer and read back from it
  nm_host,     \* the native-messaging host process: stdin, stdout, its loop
  cfu,         \* the cfu-id file and the calls of get_or_create_cfu_id
  fs,          \* FsState, the files it opens and the fs_* commands
  lk           \* the tasks of the multiplexer at the grain of their locks:
               \* where each task is and which task holds which lock

lvars == <<cpc, server_id, local_port, apc, aabort, acur>>
cvars == <<cstate, clis, socket_id, ppc, pabort>>
peervars == <<peerState, peerSent, rdPos>>
svars == <<spc, starget, spayload, sconn, swritten, sresult, sresponse>>
\* The state of the programs other than the TCP multiplexer.
xvars == <<frame, rt, nm_host, cfu, fs, lk>>
\* The state of the TCP multiplexer.
tcpvars == <<load, next_id, allocated, servers, sockets, lvars, chan, rchan,
             cvars, peervars, wire, wlock, svars>>
vars == <<tcpvars, xvars>>

\* ---------------------------------------------------------------- helpers
\* HashMap::insert
MapInsert(m, k, v) == [x \in DOMAIN m \cup {k} |-> IF x = k THEN v ELSE m[x]]

\* HashMap::remove
MapRemove(m, k) == [x \in DOMAIN m \ {k} |-> m[x]]

Min(a, b) == IF a < b THEN a ELSE b

\* The read buffer of a read task: vec![0u8; 65536].
BufSize == 65536

RequestedPorts == {0, 8080}
EphemeralPorts == {49152, 49153}

\* The ports held by a live TcpListener: bound, and not yet dropped with its
\* accept task.
PortsInUse ==
  {local_port[l] : l \in {k \in ListenerSlots :
      cpc[k] \in {"insert", "done"} /\ apc[k] # "cancelled"}}

\* TcpListener::bind and local_addr: the port the listener gets, 0 when the
\* bind fails. A requested port is taken as it is when it is free; for port 0
\* the system assigns a free port of its ephemeral range.
BoundPort(port) ==
  LET free == (IF port = 0 THEN EphemeralPorts ELSE {port}) \ PortsInUse IN
  IF free = {} THEN 0 ELSE CHOOSE p \in free : \A q \in free : p <= q

\* ---------------------------------------------------------------- events
Listening(sid, port) == [type |-> "listening", serverId |-> sid, port |-> port]
Accept(sid, sock) == [type |-> "accept", serverId |-> sid, socketId |-> sock]
Close(sock, err) == [type |-> "close", socketId |-> sock, hadError |-> err]
Error(sock) == [type |-> "error", socketId |-> sock]

\* send_control: one JSON message on the channel. The channel of a listener
\* is kept as the messages of each sender in the order sent: those of the
\* create call and the accept task in chan, those of each read task in rchan.
send_control(l, event) == chan' = [chan EXCEPT ![l] = Append(@, event)]

recv_send_control(c, event) == rchan' = [rchan EXCEPT ![c] = Append(@, event)]

\* send_data: one raw message, the id in big-endian then the bytes.
DataFrame(sock, data) == [type |-> "raw", frame |-> to_be_bytes(sock) \o data]

send_data(c, sock, data) ==
  rchan' = [rchan EXCEPT ![c] = Append(@, DataFrame(sock, data))]

\* The other programs are not running: send_data is not called on its own,
\* no host process runs, nobody calls get_or_create_cfu_id.
FrameIdle == frame = [pc |-> "idle", id |-> U32Zero, data |-> <<>>]

RtIdle ==
  rt = [pc |-> "done", all |-> <<>>, todo |-> <<>>, buf |-> <<>>, got |-> <<>>]

HostIdle ==
  nm_host = [pc |-> "exited", stdin |-> <<>>, ends |-> "eof", stdout |-> <<>>,
             msg |-> <<>>, reqs |-> <<>>, resps |-> <<>>, exit |-> "",
             err |-> "", sent |-> <<>>, tail |-> "none"]

CfuIdle ==
  cfu = [file |-> [exists |-> FALSE, text |-> <<>>], pc |-> <<>>, id |-> <<>>,
         after |-> <<>>, ret |-> <<>>, made |-> 0]

FsIdle ==
  fs = [next_id |-> FirstId, handles |-> <<>>, files |-> <<>>,
        opening |-> {}, returned |-> {}, closed |-> {}, wrapped |-> FALSE,
        calls |-> 0]

LkIdle ==
  lk = [pc |-> <<>>, holder |-> <<>>, servers |-> FALSE, sockets |-> FALSE,
        aborted |-> {}]

OthersIdle == FrameIdle /\ RtIdle /\ HostIdle /\ CfuIdle /\ FsIdle /\ LkIdle

\* ---------------------------------------------------------------- Init
\* TcpState::new, before any command: the counter at 1, both registries
\* empty, no task, no connection, no call in progress.
TcpNew ==
  /\ next_id = FirstId
  /\ allocated = <<>>
  /\ servers = <<>>
  /\ sockets = <<>>
  /\ cpc = [l \in ListenerSlots |-> "idle"]
  /\ server_id = [l \in ListenerSlots |-> None]
  /\ local_port = [l \in ListenerSlots |-> 0]
  /\ apc = [l \in ListenerSlots |-> "none"]
  /\ aabort = [l \in ListenerSlots |-> FALSE]
  /\ acur = [l \in ListenerSlots |-> 0]
  /\ chan = [l \in ListenerSlots |-> <<>>]
  /\ rchan = [c \in ConnSlots |-> <<>>]
  /\ cstate = [c \in ConnSlots |-> "free"]
  /\ clis = [c \in ConnSlots |-> 0]
  /\ socket_id = [c \in ConnSlots |-> None]
  /\ ppc = [c \in ConnSlots |-> "none"]
  /\ pabort = [c \in ConnSlots |-> FALSE]
  /\ peerState = [c \in ConnSlots |-> "open"]
  /\ peerSent = [c \in ConnSlots |-> <<>>]
  /\ rdPos = [c \in ConnSlots |-> 0]
  /\ wire = [c \in ConnSlots |-> <<>>]
  /\ wlock = [c \in ConnSlots |-> 0]
  /\ spc = [s \in SendSlots |-> "idle"]
  /\ starget = [s \in SendSlots |-> None]
  /\ spayload = [s \in SendSlots |-> <<>>]
  /\ sconn = [s \in SendSlots |-> 0]
  /\ swritten = [s \in SendSlots |-> 0]
  /\ sresult = [s \in SendSlots |-> ""]
  /\ sresponse = [s \in SendSlots |-> <<>>]

Init ==
  /\ load \in Loads
  /\ TcpNew
  /\ OthersIdle

\* ---------------------------------------------------------------- ids
\* TcpState::next_id and the accept loop's next_id.fetch_add(1, Relaxed):
\* one atomic step that returns the old value and stores the incremented one.
fetch_add ==
  /\ next_id' = WrappingInc(next_id)
  /\ allocated' = Append(allocated, next_id)

\* The ids a command of the consumer may name: every id issued so far, and 0
\* for the ids that were never issued.
IdChoices == {allocated[i] : i \in DOMAIN allocated} \cup {U32Zero}

\* ---------------------------------------------------------------- listener
Hosts == {"127.0.0.1", "localhost"}

\* format!("{host}:{port}").parse::<SocketAddr>(): only an IP literal parses.
ParsesAsSocketAddr(host) == host = "127.0.0.1"

\* Listener slots are taken in order.
NextListenerSlot(l) ==
  /\ l <= load.listeners
  /\ cpc[l] = "idle"
  /\ \A k \in ListenerSlots : k < l => cpc[k] # "idle"

\* tcp_server_create_bind putting the requested port in the Listening event.
tcp_server_create_bind_requested_port(l, host, port) ==
  /\ NextListenerSlot(l)
  /\ port \in load.ports
  /\ ParsesAsSocketAddr(host)
  /\ BoundPort(port) # 0
  /\ local_port' = [local_port EXCEPT ![l] = BoundPort(port)]
  /\ fetch_add
  /\ server_id' = [server_id EXCEPT ![l] = next_id]
  /\ send_control(l, Listening(next_id, port))
  /\ apc' = [apc EXCEPT ![l] = "accept"]
  /\ cpc' = [cpc EXCEPT ![l] = "insert"]
  /\ UNCHANGED <<xvars, load, rchan, servers, sockets, aabort, acur, cvars, peervars,
                 wire, wlock, svars>>

\* tcp_server_create up to the spawn of the accept task: parse, bind,
\* local_addr, next_id, send_control(Listening), tokio::spawn.
tcp_server_create_bind(l, host, port) ==
  /\ NextListenerSlot(l)
  /\ port \in load.ports
  /\ ParsesAsSocketAddr(host)
  /\ BoundPort(port) # 0
  /\ local_port' = [local_port EXCEPT ![l] = BoundPort(port)]
  /\ fetch_add
  /\ server_id' = [server_id EXCEPT ![l] = next_id]
  /\ send_control(l, Listening(next_id, BoundPort(port)))
  /\ apc' = [apc EXCEPT ![l] = "accept"]
  /\ cpc' = [cpc EXCEPT ![l] = "insert"]
  /\ UNCHANGED <<xvars, load, rchan, servers, sockets, aabort, acur, cvars, peervars,
                 wire, wlock, svars>>

\* tcp_server_create_fail taking an id from the counter before it fails.
tcp_server_create_fail_consumes_id(l, host, port) ==
  /\ NextListenerSlot(l)
  /\ port \in load.ports
  /\ ~ParsesAsSocketAddr(host) \/ BoundPort(port) = 0
  /\ fetch_add
  /\ UNCHANGED <<xvars, load, servers, sockets, lvars, chan, rchan, cvars, peervars,
                 wire, wlock, svars>>

\* tcp_server_create returning Err("invalid address: ..") or
\* Err("bind failed: .."): nothing was done.
tcp_server_create_fail(l, host, port) ==
  /\ NextListenerSlot(l)
  /\ port \in load.ports
  /\ ~ParsesAsSocketAddr(host) \/ BoundPort(port) = 0
  /\ UNCHANGED vars

\* state.servers.lock().await.insert(server_id, handle); Ok(server_id)
tcp_server_create_insert(l) ==
  /\ cpc[l] = "insert"
  /\ servers' = MapInsert(servers, server_id[l], l)
  /\ cpc' = [cpc EXCEPT ![l] = "done"]
  /\ UNCHANGED <<xvars, load, rchan, next_id, allocated, sockets, server_id,
                 local_port, apc, aabort, acur, chan, cvars, peervars, wire,
                 wlock, svars>>

\* ---------------------------------------------------------------- accept task
Pending(l) == {c \in ConnSlots : cstate[c] = "pending" /\ clis[c] = l}

\* The backlog is first in, first out; connection slots are taken in order.
HeadOfBacklog(l) == CHOOSE c \in Pending(l) : \A d \in Pending(l) : c <= d

\* An aborted task is dropped at the first await that is not ready: back at
\* accept() with an empty backlog it is cancelled.
AcceptResume(l) ==
  IF aabort[l] /\ Pending(l) = {} THEN "cancelled" ELSE "accept"

\* listener.accept().await returning Ok, next_id.fetch_add, tokio::io::split,
\* send_control(Accept) and tokio::spawn of the read task.
accept_task_accept(l) ==
  /\ apc[l] = "accept"
  /\ Pending(l) # {}
  /\ LET c == HeadOfBacklog(l) IN
       /\ cstate' = [cstate EXCEPT ![c] = "accepted"]
       /\ socket_id' = [socket_id EXCEPT ![c] = next_id]
       /\ acur' = [acur EXCEPT ![l] = c]
       /\ ppc' = [ppc EXCEPT ![c] = "read"]
  /\ fetch_add
  /\ send_control(l, Accept(server_id[l], next_id))
  /\ apc' = [apc EXCEPT ![l] = "insert"]
  /\ UNCHANGED <<xvars, load, rchan, servers, sockets, cpc, server_id, local_port,
                 aabort, clis, pabort, peervars, wire, wlock, svars>>

\* accept_task_error leaving the loop: the task ends and drops the listener.
accept_task_error_break(l) ==
  /\ apc[l] = "accept"
  /\ ~aabort[l]
  /\ apc' = [apc EXCEPT ![l] = "cancelled"]
  /\ UNCHANGED <<xvars, load, rchan, next_id, allocated, servers, sockets, cpc,
                 server_id, local_port, aabort, acur, chan, cvars, peervars,
                 wire, wlock, svars>>

\* listener.accept().await returning Err: eprintln and continue.
accept_task_error(l) ==
  /\ apc[l] = "accept"
  /\ ~aabort[l]
  /\ UNCHANGED vars

\* accept_task_insert without the loop: the task ends after its first
\* connection.
accept_task_insert_exit(l) ==
  /\ apc[l] = "insert"
  /\ sockets' = MapInsert(sockets, socket_id[acur[l]], acur[l])
  /\ acur' = [acur EXCEPT ![l] = 0]
  /\ apc' = [apc EXCEPT ![l] = "cancelled"]
  /\ UNCHANGED <<xvars, load, rchan, next_id, allocated, servers, cpc, server_id,
                 local_port, aabort, chan, cvars, peervars, wire, wlock, svars>>

\* state_sockets.lock().await.insert(socket_id, handle), the push on the
\* task's own id list, and back to accept().
accept_task_insert(l) ==
  /\ apc[l] = "insert"
  /\ sockets' = MapInsert(sockets, socket_id[acur[l]], acur[l])
  /\ acur' = [acur EXCEPT ![l] = 0]
  /\ apc' = [apc EXCEPT ![l] = AcceptResume(l)]
  /\ UNCHANGED <<xvars, load, rchan, next_id, allocated, servers, cpc, server_id,
                 local_port, aabort, chan, cvars, peervars, wire, wlock, svars>>

\* The aborted accept task is dropped at an await: at accept(), or at the
\* registry lock when another task holds it.
accept_task_cancel(l) ==
  /\ aabort[l]
  /\ apc[l] \in {"accept", "insert"}
  /\ apc' = [apc EXCEPT ![l] = "cancelled"]
  /\ UNCHANGED <<xvars, load, rchan, next_id, allocated, servers, sockets, cpc,
                 server_id, local_port, aabort, acur, chan, cvars, peervars,
                 wire, wlock, svars>>


\* ---------------------------------------------------------------- read task
Available(c) == Len(peerSent[c]) - rdPos[c]

\* reader.read() would return without suspending: data, end of stream or an
\* error is there.
ReadReady(c, pos) == pos < Len(peerSent[c]) \/ peerState[c] # "open"

\* An aborted task is dropped at the first await that is not ready.
ReadResume(c, pos) ==
  IF pabort[c] /\ ~ReadReady(c, pos) THEN "cancelled" ELSE "read"

\* recv_task_data sending the buffer from its start up to all that was read
\* so far.
recv_task_data_resend(c, n) ==
  /\ ppc[c] = "read"
  /\ n \in 1..Min(Available(c), BufSize)
  /\ send_data(c, socket_id[c], SubSeq(peerSent[c], 1, rdPos[c] + n))
  /\ rdPos' = [rdPos EXCEPT ![c] = @ + n]
  /\ ppc' = [ppc EXCEPT ![c] = ReadResume(c, rdPos[c] + n)]
  /\ UNCHANGED <<xvars, load, chan, next_id, allocated, servers, sockets, lvars,
                 cstate, clis, socket_id, pabort, peerState, peerSent, wire,
                 wlock, svars>>

\* Ok(n), n > 0: send_data(&buf[..n]) and loop.
recv_task_data(c, n) ==
  /\ ppc[c] = "read"
  /\ n \in 1..Min(Available(c), BufSize)
  /\ send_data(c, socket_id[c], SubSeq(peerSent[c], rdPos[c] + 1, rdPos[c] + n))
  /\ rdPos' = [rdPos EXCEPT ![c] = @ + n]
  /\ ppc' = [ppc EXCEPT ![c] = ReadResume(c, rdPos[c] + n)]
  /\ UNCHANGED <<xvars, load, chan, next_id, allocated, servers, sockets, lvars,
                 cstate, clis, socket_id, pabort, peerState, peerSent, wire,
                 wlock, svars>>

\* recv_task_eof without the break: the loop reads again after the Close.
recv_task_eof_no_break(c) ==
  /\ ppc[c] = "read"
  /\ peerState[c] = "shut"
  /\ Available(c) = 0
  /\ recv_send_control(c, Close(socket_id[c], FALSE))
  /\ Len(rchan[c]) < 4
  /\ UNCHANGED <<xvars, load, chan, next_id, allocated, servers, sockets, lvars,
                 cvars, peervars, wire, wlock, svars>>

\* recv_task_eof leaving the loop without the Close event.
recv_task_eof_silent(c) ==
  /\ ppc[c] = "read"
  /\ peerState[c] = "shut"
  /\ Available(c) = 0
  /\ ppc' = [ppc EXCEPT ![c] = "cleanup"]
  /\ UNCHANGED <<xvars, load, chan, rchan, next_id, allocated, servers, sockets, lvars,
                 cstate, clis, socket_id, pabort, peervars, wire, wlock, svars>>

\* Ok(0): send_control(Close {had_error: false}) and break.
recv_task_eof(c) ==
  /\ ppc[c] = "read"
  /\ peerState[c] = "shut"
  /\ Available(c) = 0
  /\ recv_send_control(c, Close(socket_id[c], FALSE))
  /\ ppc' = [ppc EXCEPT ![c] = "cleanup"]
  /\ UNCHANGED <<xvars, load, chan, next_id, allocated, servers, sockets, lvars,
                 cstate, clis, socket_id, pabort, peervars, wire, wlock, svars>>

\* Err(e): send_control(Error).
recv_task_error(c) ==
  /\ ppc[c] = "read"
  /\ peerState[c] = "reset"
  /\ recv_send_control(c, Error(socket_id[c]))
  /\ ppc' = [ppc EXCEPT ![c] = "errclose"]
  /\ UNCHANGED <<xvars, load, chan, next_id, allocated, servers, sockets, lvars,
                 cstate, clis, socket_id, pabort, peervars, wire, wlock, svars>>

\* Err(e), continued: send_control(Close {had_error: true}) and break.
recv_task_error_close(c) ==
  /\ ppc[c] = "errclose"
  /\ recv_send_control(c, Close(socket_id[c], TRUE))
  /\ ppc' = [ppc EXCEPT ![c] = "cleanup"]
  /\ UNCHANGED <<xvars, load, chan, next_id, allocated, servers, sockets, lvars,
                 cstate, clis, socket_id, pabort, peervars, wire, wlock, svars>>

\* state_sockets_for_recv.lock().await.remove(&socket_id), and the task ends.
recv_task_cleanup(c) ==
  /\ ppc[c] = "cleanup"
  /\ sockets' = MapRemove(sockets, socket_id[c])
  /\ ppc' = [ppc EXCEPT ![c] = "done"]
  /\ UNCHANGED <<xvars, load, rchan, next_id, allocated, servers, lvars, chan, cstate,
                 clis, socket_id, pabort, peervars, wire, wlock, svars>>

\* The aborted read task is dropped at an await: at read(), or at the registry
\* lock when another task holds it.
recv_task_cancel(c) ==
  /\ pabort[c]
  /\ ppc[c] \in {"read", "cleanup"}
  /\ ppc' = [ppc EXCEPT ![c] = "cancelled"]
  /\ UNCHANGED <<xvars, load, rchan, next_id, allocated, servers, sockets, lvars,
                 chan, cstate, clis, socket_id, pabort, peervars, wire, wlock,
                 svars>>

\* ---------------------------------------------------------------- peers
ListenerOpen(l) ==
  cpc[l] \in {"insert", "done"} /\ apc[l] # "cancelled"

\* The k-th byte the peer of connection c sends.
PeerByte(c, k) == 16 * c + k

\* A peer connects to a bound listener: the connection waits in the backlog.
\* What the peer does on it before the accept is seen by the program only
\* after it, so the peer's other steps are taken from the accept on.
PeerConnect(c, l) ==
  /\ c <= load.conns
  /\ cstate[c] = "free"
  /\ \A d \in ConnSlots : d < c => cstate[d] # "free"
  /\ ListenerOpen(l)
  /\ cstate' = [cstate EXCEPT ![c] = "pending"]
  /\ clis' = [clis EXCEPT ![c] = l]
  /\ UNCHANGED <<xvars, load, rchan, next_id, allocated, servers, sockets, lvars,
                 chan, socket_id, ppc, pabort, peervars, wire, wlock, svars>>

\* Once the read half is dropped nothing the peer sends is read any more.
PeerSend(c) ==
  /\ cstate[c] = "accepted"
  /\ peerState[c] = "open"
  /\ Len(peerSent[c]) < load.bytes
  /\ ppc[c] # "cancelled"
  /\ peerSent' = [peerSent EXCEPT ![c] = Append(@, PeerByte(c, Len(@) + 1))]
  /\ UNCHANGED <<xvars, load, rchan, next_id, allocated, servers, sockets, lvars,
                 chan, cvars, peerState, rdPos, wire, wlock, svars>>

\* The peer shuts its writing side down (FIN).
PeerShutdown(c) ==
  /\ "shut" \in load.ends
  /\ cstate[c] = "accepted"
  /\ peerState[c] = "open"
  /\ ppc[c] # "cancelled"
  /\ peerState' = [peerState EXCEPT ![c] = "shut"]
  /\ UNCHANGED <<xvars, load, rchan, next_id, allocated, servers, sockets, lvars,
                 chan, cvars, peerSent, rdPos, wire, wlock, svars>>

\* The peer resets the connection (RST): reads and writes fail from then on.
PeerReset(c) ==
  /\ "reset" \in load.ends
  /\ cstate[c] = "accepted"
  /\ peerState[c] \in {"open", "shut"}
  /\ peerState' = [peerState EXCEPT ![c] = "reset"]
  /\ UNCHANGED <<xvars, load, rchan, next_id, allocated, servers, sockets, lvars,
                 chan, cvars, peerSent, rdPos, wire, wlock, svars>>


\* ---------------------------------------------------------------- tcp_send
\* The bodies a send may carry; the bytes name the call they come from.
Payloads(s) == {[k \in 1..n |-> 16 * s + k] : n \in {MaxPayload}}

NextSendSlot(s) ==
  /\ s <= load.sends
  /\ spc[s] = "idle"
  /\ \A k \in SendSlots : k < s => spc[k] # "idle"

\* tcp_send_lookup finding the writer by the connection's id, registered or
\* not.
tcp_send_lookup_unregistered(s, id, body) ==
  /\ NextSendSlot(s)
  /\ starget' = [starget EXCEPT ![s] = id]
  /\ spayload' = [spayload EXCEPT ![s] = body]
  /\ IF \E c \in ConnSlots : socket_id[c] = id /\ ppc[c] # "none"
       THEN /\ sconn' = [sconn EXCEPT ![s] =
                 CHOOSE c \in ConnSlots : socket_id[c] = id]
            /\ spc' = [spc EXCEPT ![s] = "lock"]
            /\ UNCHANGED sresult
       ELSE /\ spc' = [spc EXCEPT ![s] = "done"]
            /\ sresult' = [sresult EXCEPT ![s] = "NotFound"]
            /\ UNCHANGED sconn
  /\ UNCHANGED <<xvars, load, rchan, next_id, allocated, servers, sockets, lvars,
                 chan, cvars, peervars, wire, wlock, swritten, sresponse>>

\* The header and the body are read, then: sockets.get(&socket_id) under the
\* registry lock, Err("socket .. not found") or a clone of the writer Arc.
tcp_send_lookup(s, id, body) ==
  /\ NextSendSlot(s)
  /\ starget' = [starget EXCEPT ![s] = id]
  /\ spayload' = [spayload EXCEPT ![s] = body]
  /\ IF id \in DOMAIN sockets
       THEN /\ sconn' = [sconn EXCEPT ![s] = sockets[id]]
            /\ spc' = [spc EXCEPT ![s] = "lock"]
            /\ UNCHANGED sresult
       ELSE /\ spc' = [spc EXCEPT ![s] = "done"]
            /\ sresult' = [sresult EXCEPT ![s] = "NotFound"]
            /\ UNCHANGED sconn
  /\ UNCHANGED <<xvars, load, rchan, next_id, allocated, servers, sockets, lvars,
                 chan, cvars, peervars, wire, wlock, swritten, sresponse>>

\* tcp_send_lock without the mutex: the write starts whoever holds the writer.
tcp_send_lock_unlocked(s) ==
  /\ spc[s] = "lock"
  /\ wlock' = [wlock EXCEPT ![sconn[s]] = s]
  /\ spc' = [spc EXCEPT ![s] = "write"]
  /\ UNCHANGED <<xvars, load, rchan, next_id, allocated, servers, sockets, lvars,
                 chan, cvars, peervars, wire, starget, spayload, sconn,
                 swritten, sresult, sresponse>>

\* tcp_send_lock with one mutex for the writers of all sockets.
tcp_send_lock_global(s) ==
  /\ spc[s] = "lock"
  /\ \A c \in ConnSlots : wlock[c] = 0
  /\ wlock' = [wlock EXCEPT ![sconn[s]] = s]
  /\ spc' = [spc EXCEPT ![s] = "write"]
  /\ UNCHANGED <<xvars, load, rchan, next_id, allocated, servers, sockets, lvars,
                 chan, cvars, peervars, wire, starget, spayload, sconn,
                 swritten, sresult, sresponse>>

\* writer.lock().await
tcp_send_lock(s) ==
  /\ spc[s] = "lock"
  /\ wlock[sconn[s]] = 0
  /\ wlock' = [wlock EXCEPT ![sconn[s]] = s]
  /\ spc' = [spc EXCEPT ![s] = "write"]
  /\ UNCHANGED <<xvars, load, rchan, next_id, allocated, servers, sockets, lvars,
                 chan, cvars, peervars, wire, starget, spayload, sconn,
                 swritten, sresult, sresponse>>

\* The bytes one write of write_all puts on the connection.
Written(s, n) ==
  [k \in 1..n |-> [by |-> s, b |-> spayload[s][swritten[s] + k]]]

\* One write of w.write_all(data): n bytes are taken, and write_all goes on
\* until the body is written.
tcp_send_write(s, n) ==
  /\ spc[s] = "write"
  /\ peerState[sconn[s]] # "reset"
  /\ n \in 1..(Len(spayload[s]) - swritten[s])
  /\ wire' = [wire EXCEPT ![sconn[s]] = @ \o Written(s, n)]
  /\ swritten' = [swritten EXCEPT ![s] = @ + n]
  /\ spc' = [spc EXCEPT ![s] =
       IF swritten[s] + n = Len(spayload[s]) THEN "flush" ELSE "write"]
  /\ UNCHANGED <<xvars, load, rchan, next_id, allocated, servers, sockets, lvars,
                 chan, cvars, peervars, wlock, starget, spayload, sconn,
                 sresult, sresponse>>

\* tcp_send_write_fail that also gives the socket up: it removes the handle
\* and sends an Error event for it.
tcp_send_write_fail_closes(s) ==
  /\ spc[s] = "write"
  /\ peerState[sconn[s]] = "reset"
  /\ wlock' = [wlock EXCEPT ![sconn[s]] = 0]
  /\ spc' = [spc EXCEPT ![s] = "done"]
  /\ sresult' = [sresult EXCEPT ![s] = "IoError"]
  /\ sockets' = MapRemove(sockets, starget[s])
  /\ recv_send_control(sconn[s], Error(starget[s]))
  /\ UNCHANGED <<xvars, load, next_id, allocated, servers, lvars, chan, cvars,
                 peervars, wire, starget, spayload, sconn, swritten, sresponse>>

\* A write of w.write_all(data) fails: Err("write failed: .."), and the guard
\* is dropped with the call.
tcp_send_write_fail(s) ==
  /\ spc[s] = "write"
  /\ peerState[sconn[s]] = "reset"
  /\ wlock' = [wlock EXCEPT ![sconn[s]] = 0]
  /\ spc' = [spc EXCEPT ![s] = "done"]
  /\ sresult' = [sresult EXCEPT ![s] = "IoError"]
  /\ UNCHANGED <<xvars, load, rchan, next_id, allocated, servers, sockets, lvars,
                 chan, cvars, peervars, wire, starget, spayload, sconn,
                 swritten, sresponse>>

\* w.flush().await, Ok(Response::new(vec![])), and the guard is dropped.
tcp_send_flush(s) ==
  /\ spc[s] = "flush"
  /\ wlock' = [wlock EXCEPT ![sconn[s]] = 0]
  /\ spc' = [spc EXCEPT ![s] = "done"]
  /\ sresult' = [sresult EXCEPT ![s] = "Ok"]
  /\ sresponse' = [sresponse EXCEPT ![s] = <<<<>>>>]
  /\ UNCHANGED <<xvars, load, rchan, next_id, allocated, servers, sockets, lvars,
                 chan, cvars, peervars, wire, starget, spayload, sconn,
                 swritten>>

\* ---------------------------------------------------------------- close
\* JoinHandle::abort on the read task of c: what the task is afterwards, as
\* <<position, abort pending>>. A task suspended at an await is dropped at
\* once; a task that is being polled runs on to its next await that is not
\* ready.
AbortRecv(c) ==
  CASE ppc[c] = "read" ->
         IF ReadReady(c, rdPos[c])
           THEN {<<"cancelled", FALSE>>, <<"read", TRUE>>}
           ELSE {<<"cancelled", FALSE>>}
    [] ppc[c] = "errclose" -> {<<"errclose", TRUE>>}
    [] ppc[c] = "cleanup" -> {<<"cancelled", FALSE>>, <<"cleanup", TRUE>>}
    [] OTHER -> {<<ppc[c], pabort[c]>>}

\* tcp_close that removes the handle and leaves the read task running.
tcp_close_no_abort(id) ==
  /\ load.closes
  /\ IF id \in DOMAIN sockets
       THEN /\ sockets' = MapRemove(sockets, id)
            /\ UNCHANGED <<xvars, load, rchan, next_id, allocated, servers, lvars, chan,
                           cvars, peervars, wire, wlock, svars>>
       ELSE UNCHANGED vars

\* tcp_close aborting the read task of the id's connection, registered or not.
tcp_close_abort_by_id(id) ==
  /\ load.closes
  /\ IF \E c \in ConnSlots : socket_id[c] = id
       THEN LET c == CHOOSE d \in ConnSlots : socket_id[d] = id IN
            /\ sockets' = MapRemove(sockets, id)
            /\ \E r \in AbortRecv(c) :
                 /\ ppc' = [ppc EXCEPT ![c] = r[1]]
                 /\ pabort' = [pabort EXCEPT ![c] = r[2]]
            /\ UNCHANGED <<xvars, load, rchan, next_id, allocated, servers, lvars, chan,
                           cstate, clis, socket_id, peervars, wire, wlock, svars>>
       ELSE UNCHANGED vars

\* tcp_close: remove the handle, abort its read task, Ok(()).
tcp_close(id) ==
  /\ load.closes
  /\ IF id \in DOMAIN sockets
         THEN /\ sockets' = MapRemove(sockets, id)
              /\ \E r \in AbortRecv(sockets[id]) :
                   /\ ppc' = [ppc EXCEPT ![sockets[id]] = r[1]]
                   /\ pabort' = [pabort EXCEPT ![sockets[id]] = r[2]]
              /\ UNCHANGED <<xvars, load, rchan, next_id, allocated, servers, lvars, chan,
                             cstate, clis, socket_id, peervars, wire, wlock, svars>>
         ELSE UNCHANGED vars

\* JoinHandle::abort on the accept task of l, as for AbortRecv.
AbortAccept(l) ==
  CASE apc[l] = "accept" ->
         IF Pending(l) # {}
           THEN {<<"cancelled", FALSE>>, <<"accept", TRUE>>}
           ELSE {<<"cancelled", FALSE>>}
    [] apc[l] = "insert" -> {<<"cancelled", FALSE>>, <<"insert", TRUE>>}
    [] OTHER -> {<<apc[l], aabort[l]>>}

\* tcp_server_close that also drops the sockets its listener accepted.
tcp_server_close_cascade(id) ==
  /\ load.closes
  /\ IF id \in DOMAIN servers
       THEN /\ servers' = MapRemove(servers, id)
            /\ sockets' = [x \in {y \in DOMAIN sockets :
                                   clis[sockets[y]] # servers[id]} |-> sockets[x]]
            /\ \E r \in AbortAccept(servers[id]) :
                 /\ apc' = [apc EXCEPT ![servers[id]] = r[1]]
                 /\ aabort' = [aabort EXCEPT ![servers[id]] = r[2]]
            /\ UNCHANGED <<xvars, load, rchan, next_id, allocated, cpc, server_id,
                           local_port, acur, chan, cvars, peervars, wire, wlock,
                           svars>>
       ELSE UNCHANGED vars

\* tcp_server_close: remove the handle, abort its accept task, Ok(()).
tcp_server_close(id) ==
  /\ load.closes
  /\ IF id \in DOMAIN servers
         THEN /\ servers' = MapRemove(servers, id)
              /\ \E r \in AbortAccept(servers[id]) :
                   /\ apc' = [apc EXCEPT ![servers[id]] = r[1]]
                   /\ aabort' = [aabort EXCEPT ![servers[id]] = r[2]]
              /\ UNCHANGED <<xvars, load, rchan, next_id, allocated, sockets, cpc,
                             server_id, local_port, acur, chan, cvars, peervars,
                             wire, wlock, svars>>
         ELSE UNCHANGED vars

\* ServerAddress answering for every id a listener was given, registered or
\* not.
ServerAddress_unregistered(id) ==
  IF \E l \in ListenerSlots : server_id[l] = id
    THEN [ok |-> TRUE,
          port |-> local_port[CHOOSE l \in ListenerSlots : server_id[l] = id]]
    ELSE [ok |-> FALSE, port |-> 0]

\* tcp_server_address: the recorded address, or Err("server .. not found").
ServerAddress(id) ==
  IF id \in DOMAIN servers
    THEN [ok |-> TRUE, port |-> local_port[servers[id]]]
    ELSE [ok |-> FALSE, port |-> 0]

tcp_server_address(id) ==
  /\ ServerAddress(id) \in [ok : BOOLEAN, port : Nat]
  /\ UNCHANGED vars

\* ---------------------------------------------------------------- Next
Next ==
  \/ \E l \in ListenerSlots, host \in Hosts, port \in RequestedPorts :
       \/ tcp_server_create_bind(l, host, port)
       \/ tcp_server_create_fail(l, host, port)
  \/ \E l \in ListenerSlots :
       \/ tcp_server_create_insert(l)
       \/ accept_task_accept(l)
       \/ accept_task_error(l)
       \/ accept_task_insert(l)
       \/ accept_task_cancel(l)
  \/ \E c \in ConnSlots :
       \/ \E n \in 1..MaxPeerBytes : recv_task_data(c, n)
       \/ recv_task_eof(c)
       \/ recv_task_error(c)
       \/ recv_task_error_close(c)
       \/ recv_task_cleanup(c)
       \/ recv_task_cancel(c)
       \/ \E l \in ListenerSlots : PeerConnect(c, l)
       \/ PeerSend(c)
       \/ PeerShutdown(c)
       \/ PeerReset(c)
  \/ \E s \in SendSlots :
       \/ \E id \in IdChoices, body \in Payloads(s) : tcp_send_lookup(s, id, body)
       \/ tcp_send_lock(s)
       \/ \E n \in 1..Len(spayload[s]) : tcp_send_write(s, n)
       \/ tcp_send_write_fail(s)
       \/ tcp_send_flush(s)
  \/ \E id \in IdChoices :
       \/ tcp_close(id)
       \/ tcp_server_close(id)
       \/ tcp_server_address(id)

Spec == Init /\ [][Next]_vars


\* A run that starts when the counter has come near the end of its 32 bits:
\* 0xFFFFFFFE, after that many allocations whose handles were all closed again.
\* allocated holds the allocations from there on.
NearWrap == <<Limb - 1, Limb - 2>>

InitWrap ==
  /\ load \in Loads
  /\ next_id = NearWrap
  /\ allocated = <<>>
  /\ servers = <<>>
  /\ sockets = <<>>
  /\ cpc = [l \in ListenerSlots |-> "idle"]
  /\ server_id = [l \in ListenerSlots |-> None]
  /\ local_port = [l \in ListenerSlots |-> 0]
  /\ apc = [l \in ListenerSlots |-> "none"]
  /\ aabort = [l \in ListenerSlots |-> FALSE]
  /\ acur = [l \in ListenerSlots |-> 0]
  /\ chan = [l \in ListenerSlots |-> <<>>]
  /\ rchan = [c \in ConnSlots |-> <<>>]
  /\ cstate = [c \in ConnSlots |-> "free"]
  /\ clis = [c \in ConnSlots |-> 0]
  /\ socket_id = [c \in ConnSlots |-> None]
  /\ ppc = [c \in ConnSlots |-> "none"]
  /\ pabort = [c \in ConnSlots |-> FALSE]
  /\ peerState = [c \in ConnSlots |-> "open"]
  /\ peerSent = [c \in ConnSlots |-> <<>>]
  /\ rdPos = [c \in ConnSlots |-> 0]
  /\ wire = [c \in ConnSlots |-> <<>>]
  /\ wlock = [c \in ConnSlots |-> 0]
  /\ spc = [s \in SendSlots |-> "idle"]
  /\ starget = [s \in SendSlots |-> None]
  /\ spayload = [s \in SendSlots |-> <<>>]
  /\ sconn = [s \in SendSlots |-> 0]
  /\ swritten = [s \in SendSlots |-> 0]
  /\ sresult = [s \in SendSlots |-> ""]
  /\ sresponse = [s \in SendSlots |-> <<>>]
  /\ OthersIdle

SpecWrap == InitWrap /\ [][Next]_vars

\* A run that starts when one listener has been up for a long time: it was
\* created first, on port 0, and got id 1; since then connections came and
\* went until the counter reached 0xFFFFFFFF, and their handles were all closed
\* again. allocated holds the listener's allocation and those from there on.
LastId == <<Limb - 1, Limb - 1>>

InitReuse ==
  /\ load \in Loads
  /\ next_id = LastId
  /\ allocated = <<FirstId>>
  /\ servers = MapInsert(<<>>, FirstId, 1)
  /\ sockets = <<>>
  /\ cpc = [l \in ListenerSlots |-> IF l = 1 THEN "done" ELSE "idle"]
  /\ server_id = [l \in ListenerSlots |-> IF l = 1 THEN FirstId ELSE None]
  /\ local_port = [l \in ListenerSlots |-> IF l = 1 THEN 49152 ELSE 0]
  /\ apc = [l \in ListenerSlots |-> IF l = 1 THEN "accept" ELSE "none"]
  /\ aabort = [l \in ListenerSlots |-> FALSE]
  /\ acur = [l \in ListenerSlots |-> 0]
  /\ chan = [l \in ListenerSlots |->
               IF l = 1 THEN <<Listening(FirstId, 49152)>> ELSE <<>>]
  /\ rchan = [c \in ConnSlots |-> <<>>]
  /\ cstate = [c \in ConnSlots |-> "free"]
  /\ clis = [c \in ConnSlots |-> 0]
  /\ socket_id = [c \in ConnSlots |-> None]
  /\ ppc = [c \in ConnSlots |-> "none"]
  /\ pabort = [c \in ConnSlots |-> FALSE]
  /\ peerState = [c \in ConnSlots |-> "open"]
  /\ peerSent = [c \in ConnSlots |-> <<>>]
  /\ rdPos = [c \in ConnSlots |-> 0]
  /\ wire = [c \in ConnSlots |-> <<>>]
  /\ wlock = [c \in ConnSlots |-> 0]
  /\ spc = [s \in SendSlots |-> "idle"]
  /\ starget = [s \in SendSlots |-> None]
  /\ spayload = [s \in SendSlots |-> <<>>]
  /\ sconn = [s \in SendSlots |-> 0]
  /\ swritten = [s \in SendSlots |-> 0]
  /\ sresult = [s \in SendSlots |-> ""]
  /\ sresponse = [s \in SendSlots |-> <<>>]
  /\ OthersIdle

SpecReuse == InitReuse /\ [][Next]_vars

\* The sends after the first get their steps: their locks are granted when
\* free and their writes and flushes complete. The first send has no such
\* promise: it may stall for ever wherever it is.
SendFairness ==
  \A s \in SendSlots \ {1} :
    /\ WF_vars(tcp_send_lock(s))
    /\ WF_vars(\E n \in 1..MaxPayload : tcp_send_write(s, n))
    /\ WF_vars(tcp_send_write_fail(s))
    /\ WF_vars(tcp_send_flush(s))

FairSpec == Spec /\ SendFairness

\* The runtime polls every task that can go on: an accept task with a
\* connection in its backlog or a handle to insert, a read task whose read has
\* something to return or that is past it, and a send whose lock is free or
\* whose write or flush the connection takes.
TaskFairness ==
  /\ \A l \in ListenerSlots :
       /\ WF_vars(accept_task_accept(l))
       /\ WF_vars(accept_task_insert(l))
  /\ \A c \in ConnSlots :
       /\ WF_vars(\E n \in 1..MaxPeerBytes : recv_task_data(c, n))
       /\ WF_vars(recv_task_eof(c))
       /\ WF_vars(recv_task_error(c))
       /\ WF_vars(recv_task_error_close(c))
       /\ WF_vars(recv_task_cleanup(c))
  /\ \A s \in SendSlots :
       /\ WF_vars(tcp_send_lock(s))
       /\ WF_vars(\E n \in 1..MaxPayload : tcp_send_write(s, n))
       /\ WF_vars(tcp_send_write_fail(s))
       /\ WF_vars(tcp_send_flush(s))

LiveSpec == Spec /\ TaskFairness

\* ---------------------------------------------------------------- send_data
\* send_data taken alone, for any socket id and any bytes: the frame it sends
\* on the channel. The ids cover each byte position and both ends of the range.
MaxFrameData == 2

FrameIds ==
  { U32Zero, FirstId, <<0, 258>>, <<0, Limb - 1>>, <<1, 0>>, <<258, 772>>,
    <<32768, 0>>, LastId }

FrameBytes == {0, 7, 255}

FrameData ==
  UNION {[1..n -> FrameBytes] : n \in 0..MaxFrameData}

\* The multiplexer does nothing else in these runs.
NoLoad == Load(0, {}, 0, 0, {}, 0, FALSE)

InitFrame ==
  /\ load = NoLoad
  /\ TcpNew
  /\ FsIdle
  /\ LkIdle
  /\ frame \in [pc : {"call"}, id : FrameIds, data : FrameData]
  /\ RtIdle
  /\ HostIdle
  /\ CfuIdle

\* send_data(&channel, socket_id, &data)
frame_send_data ==
  /\ frame.pc = "call"
  /\ send_data(1, frame.id, frame.data)
  /\ frame' = [frame EXCEPT !.pc = "sent"]
  /\ UNCHANGED <<load, next_id, allocated, servers, sockets, lvars, chan,
                 cvars, peervars, wire, wlock, svars, rt, nm_host, cfu, fs, lk>>

NextFrame == frame_send_data

SpecFrame == InitFrame /\ [][NextFrame]_vars

\* ---------------------------------------------------------------- native messaging: bytes
\* 1024 * 1024, the largest length read_message_from accepts.
MaxMessage == 1048576

\* A stream of bytes is kept as runs, so that a body of a megabyte is one
\* item. A run is n equal bytes b, or n bytes of the JSON text of a value
\* starting at offset at of that text.
ByteRun(b, n) == [b |-> b, json |-> <<>>, at |-> 0, n |-> n]

TextRun(v, at, n) == [b |-> -1, json |-> <<v>>, at |-> at, n |-> n]

\* Two runs that are one run: equal bytes, or two adjoining pieces of a text.
Adjoins(x, y) ==
  /\ x.b = y.b
  /\ x.json = y.json
  /\ (x.json = <<>> \/ x.at + x.n = y.at)

\* Vec::extend_from_slice / Write::write_all: the bytes of t after those of s.
Cat(s, t) ==
  IF s = <<>> THEN t
  ELSE IF t = <<>> THEN s
  ELSE IF Adjoins(s[Len(s)], t[1])
       THEN SubSeq(s, 1, Len(s) - 1)
              \o <<[s[Len(s)] EXCEPT !.n = @ + t[1].n]>> \o Tail(t)
       ELSE s \o t

\* The number of bytes in the first i runs of a stream, and in all of it.
RECURSIVE BytesUpTo(_, _)
BytesUpTo(s, i) == IF i = 0 THEN 0 ELSE s[i].n + BytesUpTo(s, i - 1)

StreamLen(s) == BytesUpTo(s, Len(s))

\* The first k bytes of a stream: the runs that start before byte k, the
\* last of them cut at k.
Take(s, k) ==
  LET m == Cardinality({i \in 1..Len(s) : BytesUpTo(s, i - 1) < k})
  IN SubSeq([i \in 1..m |->
               [s[i] EXCEPT !.n = Min(@, k - BytesUpTo(s, i - 1))]], 1, m)

\* What follows the first k bytes: the runs that end after byte k, the first
\* of them from k on.
Drop(s, k) ==
  LET j == Cardinality({i \in 1..Len(s) : BytesUpTo(s, i) <= k})
      cut == k - BytesUpTo(s, j)
  IN SubSeq([i \in 1..(Len(s) - j) |->
               IF i = 1
               THEN [s[j + 1] EXCEPT !.n = @ - cut,
                                     !.at = IF s[j + 1].json = <<>> THEN 0
                                            ELSE @ + cut]
               ELSE s[j + i]], 1, Len(s) - j)

\* A stream from its bytes, and back. The bytes of a JSON text are not spelt
\* out: no input puts a text where a length is read.
RECURSIVE Bytes(_)
Bytes(bs) ==
  IF bs = <<>> THEN <<>> ELSE Cat(<<ByteRun(bs[1], 1)>>, Bytes(Tail(bs)))

RECURSIVE Explode(_)
Explode(s) ==
  IF s = <<>> THEN <<>> ELSE [i \in 1..s[1].n |-> s[1].b] \o Explode(Tail(s))

\* `as u32` of a length.
AsU32(n) == <<(n \div Limb) % Limb, n % Limb>>

\* The four bytes in the opposite order, most significant first.
to_le_bytes_swapped(v) ==
  <<v[1] \div 256, v[1] % 256, v[2] \div 256, v[2] % 256>>

\* u32::to_le_bytes
to_le_bytes(v) == <<v[2] % 256, v[2] \div 256, v[1] % 256, v[1] \div 256>>

\* u32::from_le_bytes
from_le_bytes(b) == <<b[4] * 256 + b[3], b[2] * 256 + b[1]>>

\* len > 1024 * 1024 accepts the limit itself.
TooLarge_inclusive(len) == len[1] >= MaxMessage \div Limb

\* len > 1024 * 1024
TooLarge(len) ==
  \/ len[1] > MaxMessage \div Limb
  \/ len[1] = MaxMessage \div Limb /\ len[2] > MaxMessage % Limb

\* `as usize` of a length that passed the check.
AsUsize(len) == len[1] * Limb + len[2]

\* ---------------------------------------------------------------- native messaging: JSON
\* A serde_json::Value is an object of string members; the member "ok" is a
\* boolean and the member "blob" stands for a string of that many characters.
ValueLen(k, x) ==
  IF k = "ok" THEN (IF x THEN 4 ELSE 5)
  ELSE IF k = "blob" THEN x + 2
  ELSE Len(x) + 2

RECURSIVE MembersLen(_, _)
MembersLen(v, keys) ==
  IF keys = {} THEN 0
  ELSE LET k == CHOOSE key \in keys : TRUE
       IN Len(k) + 3 + ValueLen(k, v[k]) + MembersLen(v, keys \ {k})

\* The length of the compact text of an object: the braces, the members as
\* "key":value, and the commas between them.
Size(v) == 2 + MembersLen(v, DOMAIN v) + Cardinality(DOMAIN v) - 1

\* serde_json::to_vec: the compact text of the value.
to_vec(v) == <<TextRun(v, 0, Size(v))>>

\* serde_json::from_slice: <<v>> when the bytes are the whole text of a value
\* v, <<>> (an error) for a piece of a text, other bytes or no bytes.
from_slice(buf) ==
  IF /\ Len(buf) = 1
     /\ buf[1].json # <<>>
     /\ buf[1].at = 0
     /\ buf[1].n = Size(buf[1].json[1])
  THEN buf[1].json
  ELSE <<>>

\* ---------------------------------------------------------------- native messaging: framing
\* The element of a set of one element. Only({e : x \in {v}}) is e with x
\* standing for the value of v, which is then worked out once.
Only(S) == CHOOSE x \in S : TRUE

\* Read::read_exact: the buffer filled from the stream, or not enough bytes.
read_exact(stream, k) ==
  Only({ [ok |-> StreamLen(s) >= n, buf |-> Take(s, n), rest |-> Drop(s, n)] :
         s \in {stream}, n \in {k} })

ReadResult(res, kind, text, value, rest) ==
  [res |-> res, kind |-> kind, text |-> text, value |-> value, rest |-> rest]

\* The error of a read_exact that ran out of bytes: the end of the input, or
\* the error the stream ended with.
Short(ends) == IF ends = "eof" THEN "UnexpectedEof" ELSE "Other"

\* read_message_from whose end of input is an error.
read_message_from_eof_is_error(stream, ends) ==
  Only({
    IF ~p.ok
    THEN ReadResult("Err", Short(ends), "", <<>>, <<>>)
    ELSE Only({
      IF TooLarge(len)
      THEN ReadResult("Err", "InvalidData", "message too large", <<>>, p.rest)
      ELSE Only({
        IF ~b.ok
        THEN ReadResult("Err", Short(ends), "", <<>>, <<>>)
        ELSE Only({
          IF value = <<>>
          THEN ReadResult("Err", "InvalidData", "json", <<>>, b.rest)
          ELSE ReadResult("Some", "", "", value, b.rest)
          : value \in {from_slice(b.buf)} })
        : b \in {read_exact(p.rest, AsUsize(len))} })
      : len \in {from_le_bytes(Explode(p.buf))} })
    : p \in {read_exact(stream, 4)} })

\* read_message_from: Ok(Some(value)), Ok(None) or Err(e), and what is left of
\* the stream.
read_message_from(stream, ends) ==
  Only({
    IF ~p.ok
    THEN IF Short(ends) = "UnexpectedEof"
         THEN ReadResult("None", "", "", <<>>, <<>>)
         ELSE ReadResult("Err", Short(ends), "", <<>>, <<>>)
    ELSE Only({
      IF TooLarge(len)
      THEN ReadResult("Err", "InvalidData", "message too large", <<>>, p.rest)
      ELSE Only({
        IF ~b.ok
        THEN ReadResult("Err", Short(ends), "", <<>>, <<>>)
        ELSE Only({
          IF value = <<>>
          THEN ReadResult("Err", "InvalidData", "json", <<>>, b.rest)
          ELSE ReadResult("Some", "", "", value, b.rest)
          : value \in {from_slice(b.buf)} })
        : b \in {read_exact(p.rest, AsUsize(len))} })
      : len \in {from_le_bytes(Explode(p.buf))} })
    : p \in {read_exact(stream, 4)} })

\* write_message_to: the length of the text in four bytes, least significant
\* first, then the text.
write_message_to(out, value) ==
  Only({
    Only({ Cat(Cat(written, len), json) :
           len \in {Bytes(to_le_bytes(AsU32(StreamLen(json))))} })
    : written \in {out}, json \in {to_vec(value)} })

\* ---------------------------------------------------------------- native messaging: host
CARGO_PKG_VERSION == "0.1.0"

\* launch_app: Ok(()) or Err(e).
LaunchResults == {"Ok", "could not find 200 OK app"}

\* handle_message that answers a ping with the request.
handle_message_echo(msg, launched) ==
  LET action == IF "action" \in DOMAIN msg THEN msg.action ELSE "" IN
  CASE action = "handshake" ->
         [action |-> "handshake", version |-> CARGO_PKG_VERSION,
          name |-> "ok200-host"]
    [] action = "ping" -> [action |-> "ping"]
    [] action = "launch" ->
         IF launched = "Ok" THEN [action |-> "launch", ok |-> TRUE]
         ELSE [action |-> "launch", ok |-> FALSE, error |-> launched]
    [] OTHER -> [error |-> "unknown action: " \o action]

\* handle_message
handle_message(msg, launched) ==
  LET action == IF "action" \in DOMAIN msg THEN msg.action ELSE "" IN
  CASE action = "handshake" ->
         [action |-> "handshake", version |-> CARGO_PKG_VERSION,
          name |-> "ok200-host"]
    [] action = "ping" -> [action |-> "pong"]
    [] action = "launch" ->
         IF launched = "Ok" THEN [action |-> "launch", ok |-> TRUE]
         ELSE [action |-> "launch", ok |-> FALSE, error |-> launched]
    [] OTHER -> [error |-> "unknown action: " \o action]

\* What the browser writes for one message (write_native_message of the
\* host's test): the same frame.
write_native_message(stdin, msg) ==
  Cat(Cat(stdin, Bytes(to_le_bytes(AsU32(Size(msg))))), to_vec(msg))

\* A ping with a member that makes its text exactly total bytes long.
PingOfSize(total) ==
  [action |-> "ping",
   blob |-> total - Size([action |-> "ping", blob |-> 0])]

MaxRequests == 2

HostRequests ==
  { [action |-> "ping"], [action |-> "handshake"], [action |-> "bogus"],
    [action |-> "launch"], [id |-> "7"], PingOfSize(MaxMessage) }

RequestSeqs == UNION {[1..n -> HostRequests] : n \in 0..MaxRequests}

RECURSIVE Frames(_)
Frames(msgs) ==
  IF msgs = <<>> THEN <<>>
  ELSE write_native_message(Frames(SubSeq(msgs, 1, Len(msgs) - 1)),
                            msgs[Len(msgs)])

\* What follows the well-formed requests on stdin.
TailNames ==
  { "none", "short_prefix", "too_large", "too_large_by_one", "max_u32",
    "short_body", "not_json", "empty_body" }

TailBytes(name) ==
  CASE name = "none" -> <<>>
    [] name = "short_prefix" -> Bytes(<<17, 0>>)
    [] name = "too_large" -> Bytes(to_le_bytes(AsU32(2000000)))
    [] name = "too_large_by_one" ->
         Frames(<<PingOfSize(MaxMessage + 1), [action |-> "ping"]>>)
    [] name = "max_u32" -> Cat(Bytes(<<255, 255, 255, 255>>), <<ByteRun(120, 9)>>)
    [] name = "short_body" -> Take(Frames(<<[action |-> "ping"]>>), 4 + 10)
    [] name = "not_json" -> Cat(Bytes(<<5, 0, 0, 0>>), <<ByteRun(120, 5)>>)
    [] name = "empty_body" ->
         Cat(Bytes(<<0, 0, 0, 0>>), Frames(<<[action |-> "ping"]>>))

\* The host process at its start: stdin holds the requests and the tail and
\* then ends, with the end of the input or with an error of the pipe.
HostStart(sent, tail, ends) ==
  [pc |-> "read", stdin |-> Cat(Frames(sent), TailBytes(tail)), ends |-> ends,
   stdout |-> <<>>, msg |-> <<>>, reqs |-> <<>>, resps |-> <<>>, exit |-> "",
   err |-> "", sent |-> sent, tail |-> tail]

InitHost ==
  /\ load = NoLoad
  /\ TcpNew
  /\ FsIdle
  /\ LkIdle
  /\ FrameIdle
  /\ RtIdle
  /\ CfuIdle
  /\ nm_host \in {HostStart(sent, tail, ends) :
                   sent \in RequestSeqs, tail \in TailNames,
                   ends \in {"eof", "error"}}

\* main: read_message(), its three arms.
host_read ==
  /\ nm_host.pc = "read"
  /\ \E r \in {read_message_from(nm_host.stdin, nm_host.ends)} :
       nm_host' =
         IF r.res = "Some"
         THEN [nm_host EXCEPT !.stdin = r.rest, !.msg = r.value,
                              !.reqs = Append(@, r.value[1]),
                              !.pc = "respond"]
         ELSE IF r.res = "None"
         THEN [nm_host EXCEPT !.stdin = r.rest, !.pc = "exited",
                              !.exit = "eof"]
         ELSE [nm_host EXCEPT !.stdin = r.rest, !.pc = "exited",
                              !.exit = "read_error",
                              !.err = IF r.text = "" THEN r.kind ELSE r.text]
  /\ UNCHANGED <<tcpvars, frame, rt, cfu, fs, lk>>

\* main that goes on to the next request after a failed write.
host_write_error_continue(launched, k) ==
  /\ nm_host.pc = "respond"
  /\ \E out \in {write_message_to(nm_host.stdout,
                                   handle_message(nm_host.msg[1], launched))} :
        nm_host' =
          [nm_host EXCEPT !.stdout = Take(out, StreamLen(nm_host.stdout) + k),
                          !.msg = <<>>,
                          !.pc = "read"]
  /\ UNCHANGED <<tcpvars, frame, rt, cfu, fs, lk>>

\* main: handle_message and write_message, which succeeds.
host_respond(launched) ==
  /\ nm_host.pc = "respond"
  /\ \E response \in {handle_message(nm_host.msg[1], launched)} :
       nm_host' =
         [nm_host EXCEPT !.stdout = write_message_to(@, response),
                         !.resps = Append(@, response),
                         !.msg = <<>>,
                         !.pc = "read"]
  /\ UNCHANGED <<tcpvars, frame, rt, cfu, fs, lk>>

\* main: handle_message and write_message, which fails after k bytes of the
\* frame went out: the loop breaks.
host_write_error(launched, k) ==
  /\ nm_host.pc = "respond"
  /\ \E out \in {write_message_to(nm_host.stdout,
                                   handle_message(nm_host.msg[1], launched))} :
        nm_host' =
          [nm_host EXCEPT !.stdout = Take(out, StreamLen(nm_host.stdout) + k),
                          !.msg = <<>>,
                          !.pc = "exited",
                          !.exit = "write_error"]
  /\ UNCHANGED <<tcpvars, frame, rt, cfu, fs, lk>>

NextHost ==
  \/ host_read
  \/ \E launched \in LaunchResults : host_respond(launched)
  \/ \E launched \in LaunchResults, k \in {0, 4} : host_write_error(launched, k)

SpecHost == InitHost /\ [][NextHost]_vars

\* The process is scheduled: while it is not exited it takes its next step.
\* A write that fails is the environment's doing and is not forced.
HostFairness ==
  /\ WF_vars(host_read)
  /\ WF_vars(\E launched \in LaunchResults : host_respond(launched))

LiveHost == SpecHost /\ HostFairness

\* ---------------------------------------------------------------- native messaging: round trip
\* write_message_to and read_message_from taken alone, as in the host's
\* test_roundtrip_message: messages are written to a buffer, then the buffer
\* is read back until a read returns no message.
MaxRtMessages == 2

RtMessages ==
  { [action |-> "ping"], [action |-> "pong"], [id |-> "7"],
    [action |-> "launch", ok |-> TRUE],
    [action |-> "handshake", version |-> CARGO_PKG_VERSION,
     name |-> "ok200-host"],
    [error |-> "unknown action: bogus"],
    PingOfSize(MaxMessage), PingOfSize(MaxMessage + 1) }

RtStart(all) ==
  [pc |-> IF all = <<>> THEN "read" ELSE "write", all |-> all, todo |-> all,
   buf |-> <<>>, got |-> <<>>]

InitRt ==
  /\ load = NoLoad
  /\ TcpNew
  /\ FsIdle
  /\ LkIdle
  /\ FrameIdle
  /\ HostIdle
  /\ CfuIdle
  /\ rt \in {RtStart(all) :
              all \in UNION {[1..n -> RtMessages] : n \in 0..MaxRtMessages}}

\* write_message_to(&mut buf, &msg)
rt_write ==
  /\ rt.pc = "write"
  /\ rt' = [rt EXCEPT !.buf = write_message_to(@, Head(rt.todo)),
                      !.todo = Tail(@),
                      !.pc = IF Len(rt.todo) = 1 THEN "read" ELSE "write"]
  /\ UNCHANGED <<tcpvars, frame, nm_host, cfu, fs, lk>>

\* read_message_from(&mut cursor)
rt_read ==
  /\ rt.pc = "read"
  /\ \E r \in {read_message_from(rt.buf, "eof")} :
       rt' = [rt EXCEPT !.buf = r.rest,
                        !.got = Append(@, [res |-> r.res, value |-> r.value]),
                        !.pc = IF r.res = "Some" THEN "read" ELSE "done"]
  /\ UNCHANGED <<tcpvars, frame, nm_host, cfu, fs, lk>>

NextRt == rt_write \/ rt_read

SpecRt == InitRt /\ [][NextRt]_vars

\* ---------------------------------------------------------------- cfu-id
\* get_or_create_cfu_id, called by the app at its start and by the headless
\* updater, which is a process of its own: calls can overlap. The file is
\* read, created and written with separate system calls and no lock.
MaxCallers == 3

Callers == 1..MaxCallers

\* The text of the file, as pieces: an id, or white space.
WhiteSpace == {" ", "\n"}

\* str::trim
RECURSIVE TrimStart(_)
TrimStart(text) ==
  IF text # <<>> /\ Head(text) \in WhiteSpace THEN TrimStart(Tail(text))
  ELSE text

RECURSIVE TrimEnd(_)
TrimEnd(text) ==
  IF text # <<>> /\ text[Len(text)] \in WhiteSpace
  THEN TrimEnd(SubSeq(text, 1, Len(text) - 1))
  ELSE text

Trim(text) == TrimEnd(TrimStart(text))

Missing == [exists |-> FALSE, text |-> <<>>]

File(text) == [exists |-> TRUE, text |-> text]

\* What the directory holds before the first call.
CfuFiles ==
  { Missing, File(<<>>), File(<<" ", "\n">>), File(<<"id0">>),
    File(<<"id0", "\n">>), File(<<"\n", "id0", " ">>) }

\* uuid::Uuid::new_v4().to_string(): an id not generated before.
new_v4(made) == "uuid-" \o ToString(made + 1)

\* The ids that calls have returned so far.
ReturnedIds ==
  {cfu.ret[c][2] : c \in {d \in Callers : Len(cfu.ret[d]) = 2}}

InitCfu ==
  /\ load = NoLoad
  /\ TcpNew
  /\ FsIdle
  /\ LkIdle
  /\ FrameIdle
  /\ RtIdle
  /\ HostIdle
  /\ cfu \in [file : CfuFiles,
              pc : {[c \in Callers |-> "idle"]},
              id : {[c \in Callers |-> ""]},
              after : {[c \in Callers |-> {}]},
              ret : {[c \in Callers |-> <<>>]},
              made : {0}]

\* A call starts; the ids returned before it are noted.
cfu_call(c) ==
  /\ cfu.pc[c] = "idle"
  /\ cfu' = [cfu EXCEPT !.pc[c] = "read", !.after[c] = ReturnedIds]
  /\ UNCHANGED <<tcpvars, frame, rt, nm_host, fs, lk>>

\* fs::read_to_string, trim, and the return of an id that is not empty.
cfu_read(c) ==
  /\ cfu.pc[c] = "read"
  /\ cfu' =
       IF cfu.file.exists /\ Trim(cfu.file.text) # <<>>
       THEN [cfu EXCEPT !.pc[c] = "done",
                        !.ret[c] = <<"Some", Trim(cfu.file.text)>>]
       ELSE [cfu EXCEPT !.pc[c] = "mkdir"]
  /\ UNCHANGED <<tcpvars, frame, rt, nm_host, fs, lk>>

\* create_dir_all and Uuid::new_v4
cfu_generate(c) ==
  /\ cfu.pc[c] = "mkdir"
  /\ cfu' = [cfu EXCEPT !.pc[c] = "create", !.id[c] = new_v4(cfu.made),
                        !.made = @ + 1]
  /\ UNCHANGED <<tcpvars, frame, rt, nm_host, fs, lk>>

\* fs::write, its first half: File::create makes the file or empties it.
cfu_create(c) ==
  /\ cfu.pc[c] = "create"
  /\ cfu' = [cfu EXCEPT !.pc[c] = "write", !.file = File(<<>>)]
  /\ UNCHANGED <<tcpvars, frame, rt, nm_host, fs, lk>>

\* fs::write, its second half: write_all of the id; Some(id) is returned.
cfu_write(c) ==
  /\ cfu.pc[c] = "write"
  /\ cfu' = [cfu EXCEPT !.pc[c] = "done", !.file = File(<<cfu.id[c]>>),
                        !.ret[c] = <<"Some", <<cfu.id[c]>>>>]
  /\ UNCHANGED <<tcpvars, frame, rt, nm_host, fs, lk>>

\* create_dir_all or fs::write fails: .ok()? returns None.
cfu_io_error(c) ==
  /\ cfu.pc[c] \in {"mkdir", "create", "write"}
  /\ cfu' = [cfu EXCEPT !.pc[c] = "done", !.ret[c] = <<"None">>]
  /\ UNCHANGED <<tcpvars, frame, rt, nm_host, fs, lk>>

NextCfu ==
  \E c \in Callers :
    \/ cfu_call(c)
    \/ cfu_read(c)
    \/ cfu_generate(c)
    \/ cfu_create(c)
    \/ cfu_write(c)
    \/ cfu_io_error(c)

SpecCfu == InitCfu /\ [][NextCfu]_vars

\* ---------------------------------------------------------------- fs_commands
\* The file-handle table (desktop/tauri-app/src-tauri/src/fs_commands.rs):
\* FsState and the commands that go through it. fs holds the counter, the
\* table, the files and the fs_open calls between their next_id and their
\* insert; returned, closed and wrapped are history. Every command seeks
\* before it reads or writes, so the table keeps no cursor.
MaxFsCalls == 3
MaxFileLen == 2

Paths == {"a", "b"}

\* The modes a caller passes; "a" is none of fs_open's.
Modes == {"r", "w", "r+", "a"}

Max(a, b) == IF a > b THEN a ELSE b

\* OpenOptions::open for the three modes: "r" and "r+" need the file, "w"
\* creates or truncates it.
OpenFile(mode, f) ==
  CASE mode \in {"r", "r+"} ->
         IF f.exists THEN [res |-> "Ok", file |-> f]
         ELSE [res |-> "OpenFailed", file |-> f]
    [] mode = "w" -> [res |-> "Ok", file |-> File(<<>>)]
    [] OTHER -> [res |-> "InvalidMode", file |-> f]

\* The bytes of a file after data is written at position; a gap is zeros.
WriteAt(text, position, data) ==
  [i \in 1..Max(Len(text), position + Len(data)) |->
     IF i > position /\ i <= position + Len(data) THEN data[i - position]
     ELSE IF i <= Len(text) THEN text[i] ELSE 0]

\* File::set_len
SetLen(text, length) ==
  [i \in 1..length |-> IF i <= Len(text) THEN text[i] ELSE 0]

\* What a command returns, and the files after it.
FsResult(res, out, files) == [res |-> res, out |-> out, files |-> files]

\* FsState::new with one file on the disk, or a table that has been in use
\* for a long time: handle 1 was opened first and is still open, and the
\* counter has come to 0xFFFFFFFF.
FsStart(counter, handles) ==
  [next_id |-> counter, handles |-> handles,
   files |-> [p \in Paths |-> IF p = "a" THEN File(<<5, 6>>) ELSE Missing],
   opening |-> {}, returned |-> DOMAIN handles, closed |-> {},
   wrapped |-> FALSE, calls |-> 0]

InitFs ==
  /\ load = NoLoad
  /\ TcpNew
  /\ FrameIdle
  /\ RtIdle
  /\ HostIdle
  /\ CfuIdle
  /\ LkIdle
  /\ fs \in { FsStart(FirstId, <<>>),
              FsStart(LastId, MapInsert(<<>>, FirstId,
                                        [path |-> "a", mode |-> "r+"])) }

\* The ids a command may name: those fs_open returned, 0 and 9.
FsIdChoices == fs.returned \cup {U32Zero, <<0, 9>>}

\* fs_open up to the wait for the table's lock: the open, and on success
\* state.next_id(); Err("open failed: ..") or Err("invalid mode: ..") before
\* any id is taken.
fs_open(path, mode) ==
  /\ fs.calls < MaxFsCalls
  /\ LET r == OpenFile(mode, fs.files[path]) IN
       IF r.res = "Ok"
       THEN fs' = [fs EXCEPT
              !.files[path] = r.file,
              !.next_id = WrappingInc(@),
              !.wrapped = @ \/ WrappingInc(fs.next_id) = U32Zero,
              !.opening = @ \cup {[id |-> fs.next_id, path |-> path,
                                   mode |-> mode]},
              !.calls = @ + 1]
       ELSE fs' = [fs EXCEPT !.calls = @ + 1]
  /\ UNCHANGED <<tcpvars, frame, rt, nm_host, cfu, lk>>

\* state.handles.lock().await.insert(id, file); Ok(id)
fs_open_insert(o) ==
  /\ o \in fs.opening
  /\ fs' = [fs EXCEPT
       !.handles = MapInsert(@, o.id, [path |-> o.path, mode |-> o.mode]),
       !.opening = @ \ {o},
       !.returned = @ \cup {o.id}]
  /\ UNCHANGED <<tcpvars, frame, rt, nm_host, cfu, lk>>

\* fs_read: under the table's lock get_mut, Err("handle .. not found"), or
\* seek, read into a buffer of length bytes and truncate it to what was read.
\* A handle that was opened for writing only cannot be read.
Read(id, length, position) ==
  IF id \notin DOMAIN fs.handles
  THEN FsResult("NotFound", <<>>, fs.files)
  ELSE LET h == fs.handles[id]
           text == fs.files[h.path].text
           n == Min(length, Max(0, Len(text) - position))
       IN IF h.mode = "w"
          THEN FsResult("IoError", <<>>, fs.files)
          ELSE FsResult("Ok", SubSeq(text, position + 1, position + n),
                        fs.files)

fs_read(id, length, position) ==
  /\ Read(id, length, position).res \in {"Ok", "NotFound", "IoError"}
  /\ UNCHANGED vars

\* fs_write: the headers and the body, then under the table's lock get_mut,
\* Err("handle .. not found"), or seek and write; Ok(n). On a handle opened
\* for reading only no byte reaches the file, and the call reports the
\* failure or not.
Write(id, position, data, failed) ==
  IF id \notin DOMAIN fs.handles
  THEN FsResult("NotFound", <<>>, fs.files)
  ELSE LET h == fs.handles[id] IN
       IF h.mode = "r"
       THEN FsResult(IF failed THEN "IoError" ELSE "Ok", <<>>, fs.files)
       ELSE FsResult("Ok", <<Len(data)>>,
                     [fs.files EXCEPT ![h.path].text =
                        WriteAt(@, position, data)])

fs_write(id, position, data, failed) ==
  /\ fs' = [fs EXCEPT !.files = Write(id, position, data, failed).files]
  /\ UNCHANGED <<tcpvars, frame, rt, nm_host, cfu, lk>>

\* fs_close that leaves the table as it is.
fs_close_keeps(id) ==
  /\ fs' = [fs EXCEPT !.closed = @ \cup ({id} \cap fs.returned)]
  /\ UNCHANGED <<tcpvars, frame, rt, nm_host, cfu, lk>>

\* fs_close: state.handles.lock().await.remove(&handle_id); Ok(())
fs_close(id) ==
  /\ fs' = [fs EXCEPT
       !.handles = MapRemove(@, id),
       !.closed = @ \cup ({id} \cap fs.returned)]
  /\ UNCHANGED <<tcpvars, frame, rt, nm_host, cfu, lk>>

\* fs_truncate: get_mut, Err("handle .. not found"), or set_len, which a
\* handle opened for reading only refuses.
Truncate(id, length) ==
  IF id \notin DOMAIN fs.handles
  THEN FsResult("NotFound", <<>>, fs.files)
  ELSE LET h == fs.handles[id] IN
       IF h.mode = "r"
       THEN FsResult("IoError", <<>>, fs.files)
       ELSE FsResult("Ok", <<>>,
                     [fs.files EXCEPT ![h.path].text = SetLen(@, length)])

fs_truncate(id, length) ==
  /\ fs' = [fs EXCEPT !.files = Truncate(id, length).files]
  /\ UNCHANGED <<tcpvars, frame, rt, nm_host, cfu, lk>>

\* fs_sync: get_mut, Err("handle .. not found"), or sync_all.
Sync(id) ==
  FsResult(IF id \in DOMAIN fs.handles THEN "Ok" ELSE "NotFound", <<>>,
           fs.files)

fs_sync(id) ==
  /\ Sync(id).res \in {"Ok", "NotFound"}
  /\ UNCHANGED vars

NextFs ==
  \/ \E path \in Paths, mode \in Modes : fs_open(path, mode)
  \/ \E o \in fs.opening : fs_open_insert(o)
  \/ \E id \in FsIdChoices :
       \/ \E length \in {MaxFileLen}, position \in {0, 1} :
            fs_read(id, length, position)
       \/ \E position \in {0, 1}, failed \in BOOLEAN :
            fs_write(id, position, <<7>>, failed)
       \/ fs_close(id)
       \/ \E length \in {0} : fs_truncate(id, length)
       \/ fs_sync(id)

SpecFs == InitFs /\ [][NextFs]_vars

\* ---------------------------------------------------------------- locks
\* The multiplexer again (tcp.rs), at the grain of its locks: one listener L
\* and one connection S, the create call, the accept task and the read task,
\* and the commands of the consumer on L and S. lk.pc is where each task is,
\* lk.holder the task that holds each lock, lk.servers and lk.sockets whether
\* L and S are in their registry, lk.aborted the tasks abort() was called on.
LkSends == {"send1", "send2"}

LkCommands == {"create", "close", "server_close", "address"} \cup LkSends

LkSpawned == {"accept", "recv"}

LkTasks == LkCommands \cup LkSpawned

\* TcpState.servers, TcpState.sockets, SocketHandle.writer and the accept
\* task's own list of ids (sockets_for_task).
Locks == {"servers", "sockets", "writer", "ids"}

Registries == {"servers", "sockets"}

\* A task waits in lock().await.
LockWaits == {"lock_servers", "lock_sockets", "lock_writer", "lock_ids"}

\* A task waits in a network call: bind, accept, read, write_all, flush.
IoWaits == {"bind", "accept", "read", "write", "flush"}

Wanted(p) ==
  CASE p = "lock_servers" -> "servers"
    [] p = "lock_sockets" -> "sockets"
    [] p = "lock_writer" -> "writer"
    [] p = "lock_ids" -> "ids"

\* With the guard in hand the task is at the map operation, or for the writer
\* at write_all.
AfterLock(p) ==
  CASE p = "lock_servers" -> "in_servers"
    [] p = "lock_sockets" -> "in_sockets"
    [] p = "lock_writer" -> "write"
    [] p = "lock_ids" -> "in_ids"

\* Where a command starts: tcp_server_create at the bind, the others at the
\* lock of the registry they look into.
FirstStep(t) ==
  CASE t = "create" -> "bind"
    [] t \in {"server_close", "address"} -> "lock_servers"
    [] OTHER -> "lock_sockets"

Held(t) == {x \in Locks : lk.holder[x] = t}

\* The consumer has invoked each command once, in any order, and none has
\* been polled yet: each is at its first await, where it stays as long as the
\* runtime lets it. Neither registry has an entry and no lock is held.
InitLock ==
  /\ load = NoLoad
  /\ TcpNew
  /\ FrameIdle
  /\ RtIdle
  /\ HostIdle
  /\ CfuIdle
  /\ FsIdle
  /\ lk = [pc |-> [t \in LkTasks |-> IF t \in LkCommands THEN FirstStep(t) ELSE "none"],
           holder |-> [x \in Locks |-> "none"],
           servers |-> FALSE, sockets |-> FALSE, aborted |-> {}]

\* TcpListener::bind returns. Ok: local_addr, next_id, send_control(Listening),
\* tokio::spawn of the accept task, and the call goes for the servers lock.
\* Err (as for an address that does not parse): the call returns the error.
lk_bind(ok) ==
  /\ lk.pc["create"] = "bind"
  /\ lk' = [lk EXCEPT !.pc["create"] = IF ok THEN "lock_servers" ELSE "done",
                      !.pc["accept"] = IF ok THEN "accept" ELSE @]
  /\ UNCHANGED <<tcpvars, frame, rt, nm_host, cfu, fs>>

\* lock().await returns the guard: the mutex was free.
lk_lock(t) ==
  /\ lk.pc[t] \in LockWaits
  /\ lk.holder[Wanted(lk.pc[t])] = "none"
  /\ lk' = [lk EXCEPT !.holder[Wanted(lk.pc[t])] = t,
                      !.pc[t] = AfterLock(lk.pc[t])]
  /\ UNCHANGED <<tcpvars, frame, rt, nm_host, cfu, fs>>

\* state.servers.lock().await.insert(server_id, handle); Ok(server_id)
lk_create_insert ==
  /\ lk.pc["create"] = "in_servers"
  /\ lk' = [lk EXCEPT !.servers = TRUE, !.holder["servers"] = "none",
                      !.pc["create"] = "done"]
  /\ UNCHANGED <<tcpvars, frame, rt, nm_host, cfu, fs>>

\* listener.accept().await returns the connection: fetch_add, split,
\* send_control(Accept), tokio::spawn of the read task, and the loop goes for
\* the sockets lock.
lk_accept ==
  /\ lk.pc["accept"] = "accept"
  /\ lk.pc["recv"] = "none"
  /\ lk' = [lk EXCEPT !.pc["accept"] = "lock_sockets", !.pc["recv"] = "read"]
  /\ UNCHANGED <<tcpvars, frame, rt, nm_host, cfu, fs>>

\* lk_accept_insert keeping the guard of the registry while it goes for the
\* lock of its list.
lk_accept_insert_keeps ==
  /\ lk.pc["accept"] = "in_sockets"
  /\ lk' = [lk EXCEPT !.sockets = TRUE, !.pc["accept"] = "lock_ids"]
  /\ UNCHANGED <<tcpvars, frame, rt, nm_host, cfu, fs>>

\* state_sockets.lock().await.insert(socket_id, handle): the guard is dropped
\* with the statement, and the loop goes for the lock of its list.
lk_accept_insert ==
  /\ lk.pc["accept"] = "in_sockets"
  /\ lk' = [lk EXCEPT !.sockets = TRUE, !.holder["sockets"] = "none",
                      !.pc["accept"] = "lock_ids"]
  /\ UNCHANGED <<tcpvars, frame, rt, nm_host, cfu, fs>>

\* sockets_for_task.lock().await.push(socket_id), and back to accept().
lk_accept_push ==
  /\ lk.pc["accept"] = "in_ids"
  /\ lk' = [lk EXCEPT !.holder["ids"] = "none", !.pc["accept"] = "accept"]
  /\ UNCHANGED <<tcpvars, frame, rt, nm_host, cfu, fs>>

\* reader.read().await returns Ok(0) or Err: the events are sent, the loop is
\* left and the task goes for the sockets lock. (A read that returns data
\* leaves the task where it is.)
lk_recv_end ==
  /\ lk.pc["recv"] = "read"
  /\ lk' = [lk EXCEPT !.pc["recv"] = "lock_sockets"]
  /\ UNCHANGED <<tcpvars, frame, rt, nm_host, cfu, fs>>

\* state_sockets_for_recv.lock().await.remove(&socket_id), and the task ends.
lk_recv_remove ==
  /\ lk.pc["recv"] = "in_sockets"
  /\ lk' = [lk EXCEPT !.sockets = FALSE, !.holder["sockets"] = "none",
                      !.pc["recv"] = "done"]
  /\ UNCHANGED <<tcpvars, frame, rt, nm_host, cfu, fs>>

\* lk_send_get keeping the guard of the registry for the rest of the call.
lk_send_get_holds(s) ==
  /\ s \in LkSends
  /\ lk.pc[s] = "in_sockets"
  /\ lk' = [lk EXCEPT !.pc[s] = IF lk.sockets THEN "lock_writer" ELSE "done",
                      !.holder["sockets"] = IF lk.sockets THEN s ELSE "none"]
  /\ UNCHANGED <<tcpvars, frame, rt, nm_host, cfu, fs>>

\* tcp_send's block: sockets.get(&socket_id), the clone of the writer or
\* Err("socket .. not found"), and the guard is dropped at the end of the
\* block, before writer.lock().
lk_send_get(s) ==
  /\ s \in LkSends
  /\ lk.pc[s] = "in_sockets"
  /\ lk' = [lk EXCEPT !.pc[s] = IF lk.sockets THEN "lock_writer" ELSE "done",
                      !.holder["sockets"] = "none"]
  /\ UNCHANGED <<tcpvars, frame, rt, nm_host, cfu, fs>>

\* w.write_all(data).await returns Ok.
lk_send_write(s) ==
  /\ s \in LkSends
  /\ lk.pc[s] = "write"
  /\ lk' = [lk EXCEPT !.pc[s] = "flush"]
  /\ UNCHANGED <<tcpvars, frame, rt, nm_host, cfu, fs>>

\* w.write_all or w.flush returns Err, or w.flush returns Ok: the call returns
\* and the guard of the writer is dropped with it.
lk_send_return(s) ==
  /\ s \in LkSends
  /\ lk.pc[s] \in {"write", "flush"}
  /\ lk' = [lk EXCEPT !.pc[s] = "done", !.holder["writer"] = "none"]
  /\ UNCHANGED <<tcpvars, frame, rt, nm_host, cfu, fs>>

\* JoinHandle::abort on a task that has not ended.
Abort(t) ==
  IF lk.pc[t] \in {"none", "done", "cancelled"} THEN lk.aborted
  ELSE lk.aborted \cup {t}

\* tcp_close: state.sockets.lock().await.remove(&socket_id), the guard is
\* dropped with the statement, then recv_task.abort() if a handle was there.
lk_close_remove ==
  /\ lk.pc["close"] = "in_sockets"
  /\ lk' = [lk EXCEPT !.sockets = FALSE, !.holder["sockets"] = "none",
                      !.aborted = IF lk.sockets THEN Abort("recv") ELSE @,
                      !.pc["close"] = "done"]
  /\ UNCHANGED <<tcpvars, frame, rt, nm_host, cfu, fs>>

\* tcp_server_close: state.servers.lock().await.remove(&server_id), then
\* accept_task.abort() if a handle was there.
lk_server_close_remove ==
  /\ lk.pc["server_close"] = "in_servers"
  /\ lk' = [lk EXCEPT !.servers = FALSE, !.holder["servers"] = "none",
                      !.aborted = IF lk.servers THEN Abort("accept") ELSE @,
                      !.pc["server_close"] = "done"]
  /\ UNCHANGED <<tcpvars, frame, rt, nm_host, cfu, fs>>

\* tcp_server_address: servers.get(&server_id) and the answer, with the guard
\* held to the end of the function.
lk_address_get ==
  /\ lk.pc["address"] = "in_servers"
  /\ lk' = [lk EXCEPT !.holder["servers"] = "none", !.pc["address"] = "done"]
  /\ UNCHANGED <<tcpvars, frame, rt, nm_host, cfu, fs>>

\* An aborted task is dropped at an await that is not ready: in a network
\* call or in lock().await, never with a registry guard in hand.
lk_cancel(t) ==
  /\ t \in lk.aborted
  /\ lk.pc[t] \in LockWaits \cup IoWaits
  /\ lk' = [lk EXCEPT !.pc[t] = "cancelled"]
  /\ UNCHANGED <<tcpvars, frame, rt, nm_host, cfu, fs>>

NextLock ==
  \/ \E t \in LkTasks :
       \/ lk_lock(t)
       \/ lk_cancel(t)
  \/ \E ok \in BOOLEAN : lk_bind(ok)
  \/ lk_create_insert
  \/ lk_accept
  \/ lk_accept_insert
  \/ lk_accept_push
  \/ lk_recv_end
  \/ lk_recv_remove
  \/ \E s \in LkSends :
       \/ lk_send_get(s)
       \/ lk_send_write(s)
       \/ lk_send_return(s)
  \/ lk_close_remove
  \/ lk_server_close_remove
  \/ lk_address_get

SpecLock == InitLock /\ [][NextLock]_vars

\* A step that waits for nothing outside the program: a lock that is free is
\* taken, a map operation is done with the guard in hand, the bind returns.
lk_step ==
  \/ \E t \in LkTasks : lk_lock(t)
  \/ \E ok \in BOOLEAN : lk_bind(ok)
  \/ lk_create_insert
  \/ lk_accept_insert
  \/ lk_accept_push
  \/ lk_recv_remove
  \/ \E s \in LkSends : lk_send_get(s)
  \/ lk_close_remove
  \/ lk_server_close_remove
  \/ lk_address_get

\* The runtime polls a task that can go on, and tokio's mutex hands a free
\* lock to a task that waits for it; every task takes finitely many steps
\* here, so it is enough that such steps do not stop while one is possible.
\* Nothing is promised of the network: an accept, a read, a write or a flush
\* may never return; the bind of an IP address does.
LockFairness == WF_vars(lk_step)

LiveLock == SpecLock /\ LockFairness

\* ---------------------------------------------------------------- claims
\* The handle of connection c is in the registry.
Registered(c) ==
  /\ socket_id[c] \in DOMAIN sockets
  /\ sockets[socket_id[c]] = c

\* The accept loop has inserted the handle of connection c.
Inserted(c) == cstate[c] = "accepted" /\ \A l \in ListenerSlots : acur[l] # c

\* The handle of connection c was in the registry and was removed from it.
Removed(c) == Inserted(c) /\ ~Registered(c)

\* A Close event for the socket id is on the channel.
CloseEmitted(id) ==
  \E c \in ConnSlots :
    /\ socket_id[c] = id
    /\ \E i \in DOMAIN rchan[c] : rchan[c][i].type = "close"

\* The step starts the send of slot s.
SendStarts(s) == spc[s] = "idle" /\ spc'[s] # "idle"

\* C1: once a Close event for socket S is on the event stream, every send to
\* S that starts afterwards fails with NotFound (and so writes nothing).
C1_SendAfterCloseNotFound ==
  [][\A s \in SendSlots :
       (SendStarts(s) /\ CloseEmitted(starget'[s])) => sresult'[s] = "NotFound"]_vars

\* C2: the socket registry holds no handle whose read task has stopped.
C2_NoStoppedTaskRegistered ==
  \A id \in DOMAIN sockets : ppc[sockets[id]] \notin {"done", "cancelled"}

BlockOf(c, s) == {i \in DOMAIN wire[c] : wire[c][i].by = s}

Senders(c) == {wire[c][i].by : i \in DOMAIN wire[c]}

FirstOf(c, s) == CHOOSE i \in BlockOf(c, s) : \A j \in BlockOf(c, s) : i <= j

\* The bytes of send s on c are one contiguous run, a prefix of its body, and
\* the send was addressed to the socket of c.
BlockWellFormed(c, s) ==
  /\ \A i, j \in BlockOf(c, s) : \A k \in i..j : k \in BlockOf(c, s)
  /\ Cardinality(BlockOf(c, s)) <= Len(spayload[s])
  /\ \A i \in BlockOf(c, s) : wire[c][i].b = spayload[s][i - FirstOf(c, s) + 1]
  /\ starget[s] = socket_id[c]

BlockComplete(c, s) == Cardinality(BlockOf(c, s)) = Len(spayload[s])

\* C5 as claimed: when no send is writing to S, what the peer of S has got is
\* exactly the bodies of the successful sends to S, each once and whole.
C5_ExactlySuccessfulPayloads ==
  \A c \in ConnSlots : wlock[c] = 0 =>
    /\ \A s \in Senders(c) :
         sresult[s] = "Ok" /\ BlockWellFormed(c, s) /\ BlockComplete(c, s)
    /\ \A s \in SendSlots :
         (sresult[s] = "Ok" /\ sconn[s] = c) => s \in Senders(c)

\* C5 as amended: what the peer of S has got is the bodies of the successful
\* sends to S, each once, whole and contiguous, and after them at most a part
\* (a prefix) of the body of one send that is still writing or whose write
\* failed; no byte comes from a send addressed to another socket.
C5_BlocksThenOnePartial ==
  \A c \in ConnSlots :
    /\ \A s \in Senders(c) :
         /\ BlockWellFormed(c, s)
         /\ sresult[s] = "Ok" => BlockComplete(c, s)
         /\ ~BlockComplete(c, s) =>
              /\ Len(wire[c]) \in BlockOf(c, s)
              /\ sresult[s] \in {"", "IoError"}
    /\ \A s \in SendSlots :
         (sresult[s] = "Ok" /\ sconn[s] = c) =>
           (s \in Senders(c) /\ BlockComplete(c, s))

\* Two successful sends on one socket: two whole bodies on its connection.
C5_Witness ==
  \E c \in ConnSlots :
    /\ sresult[1] = "Ok" /\ sresult[2] = "Ok"
    /\ sconn[1] = c /\ sconn[2] = c
    /\ Len(wire[c]) = 2 * MaxPayload

\* The send holds the writer: it is in its write-and-flush section.
InWriteSection(s) == spc[s] \in {"write", "flush"}

\* C6: at most one send is in its write-and-flush section for a socket.
C6_OneWriterPerSocket ==
  \A s, u \in SendSlots :
    (s # u /\ InWriteSection(s) /\ InWriteSection(u)) => sconn[s] # sconn[u]

\* Two sends are in their write sections at once, on two different sockets.
C6_Witness ==
  \E s, u \in SendSlots :
    /\ InWriteSection(s) /\ InWriteSection(u)
    /\ swritten[s] > 0 /\ swritten[u] > 0
    /\ sconn[s] # sconn[u]

\* C7: a send (the first, which may stall for ever in its write or flush) on
\* one socket never keeps a send on another socket from completing.
C7_OtherSocketSendCompletes ==
  \A s \in SendSlots \ {1} :
    (spc[s] \in {"lock", "write", "flush"} /\ sconn[s] # sconn[1])
      ~> (spc[s] = "done")

\* The second send has completed on its socket while the first is still in
\* the middle of its write on another.
C7_Witness ==
  /\ spc[1] = "write" /\ swritten[1] > 0
  /\ spc[2] = "done" /\ sresult[2] = "Ok"
  /\ sconn[2] # sconn[1]

\* The socket id an event on the channel is about: the field of a control
\* event, the first four bytes of a data frame.
EventSocket(e) ==
  IF e.type = "raw" THEN from_be_bytes(SubSeq(e.frame, 1, 4)) ELSE e.socketId

FramePayload(e) == SubSeq(e.frame, 5, Len(e.frame))

AcceptsOf(l, id) ==
  {i \in DOMAIN chan[l] : chan[l][i].type = "accept" /\ chan[l][i].socketId = id}

\* C8: what the stream holds about a socket is a prefix of: one Accept, data
\* frames, then either Close{hadError: false} or Error and at once
\* Close{hadError: true}.
C8_PerSocketEventOrder ==
  \A c \in ConnSlots :
    LET e == rchan[c]
        n == Len(rchan[c])
    IN /\ socket_id[c] # None => Cardinality(AcceptsOf(clis[c], socket_id[c])) = 1
       /\ n > 0 => socket_id[c] # None
       /\ \A i \in 1..n :
            /\ EventSocket(e[i]) = socket_id[c]
            /\ e[i].type \in {"raw", "error", "close"}
            /\ i > 1 /\ e[i].type \in {"raw", "error"} => e[i - 1].type = "raw"
            /\ e[i].type = "close" =>
                 /\ i = n
                 /\ e[i].hadError <=> (i > 1 /\ e[i - 1].type = "error")
                 /\ i > 1 => e[i - 1].type \in {"raw", "error"}

\* A socket with a data frame, then Error, then Close{hadError: true}.
C8_Witness ==
  \E c \in ConnSlots :
    /\ Len(rchan[c]) = 3
    /\ rchan[c][1].type = "raw"
    /\ rchan[c][2].type = "error"
    /\ rchan[c][3] = Close(socket_id[c], TRUE)

RECURSIVE ConcatFrames(_)
ConcatFrames(es) ==
  IF es = <<>> THEN <<>>
  ELSE IF Head(es).type = "raw"
         THEN FramePayload(Head(es)) \o ConcatFrames(Tail(es))
         ELSE ConcatFrames(Tail(es))

\* C9: the data frames of a socket, put together in the order sent, are the
\* bytes its read task has read, a prefix of what the peer sent; no frame is
\* empty and each read made one frame.
C9_FramesArePeerPrefix ==
  \A c \in ConnSlots :
    /\ rdPos[c] <= Len(peerSent[c])
    /\ ConcatFrames(rchan[c]) = SubSeq(peerSent[c], 1, rdPos[c])
    /\ \A i \in DOMAIN rchan[c] :
         rchan[c][i].type = "raw" =>
           /\ Len(FramePayload(rchan[c][i])) > 0
           /\ EventSocket(rchan[c][i]) = socket_id[c]

\* Two reads of one byte each made two frames.
C9_Witness ==
  \E c \in ConnSlots :
    /\ rdPos[c] = 2
    /\ Len(rchan[c]) = 2
    /\ rchan[c][1].type = "raw" /\ rchan[c][2].type = "raw"
    /\ Len(FramePayload(rchan[c][2])) = 1

\* C10: every id the counter returns is non-zero and greater than every id it
\* returned before.
C10_IdsNonZeroIncreasing ==
  \A i \in DOMAIN allocated :
    /\ allocated[i] # U32Zero
    /\ \A j \in 1..(i - 1) : U32Less(allocated[j], allocated[i])

\* C11: no two allocations return the same id, so the keys of the listener
\* registry and those of the socket registry are disjoint and an id is not
\* returned again while its handle is registered.
C11_AllocationsDistinct ==
  /\ \A i, j \in DOMAIN allocated : i # j => allocated[i] # allocated[j]
  /\ DOMAIN servers \cap DOMAIN sockets = {}

\* C12: a close_socket or close_listener of an id that is not in its registry
\* (never allocated, closed before, removed by its own read task, or an id of
\* the other kind) changes nothing; and as a close leaves its id out of the
\* registry, a second close of the same id is such a close.
C12_UnknownCloseIsNoOp ==
  [][\A id \in IdChoices :
       /\ (id \notin DOMAIN sockets /\ tcp_close(id)) => UNCHANGED vars
       /\ (id \notin DOMAIN servers /\ tcp_server_close(id)) => UNCHANGED vars
       /\ tcp_close(id) => id \notin DOMAIN sockets'
       /\ tcp_server_close(id) => id \notin DOMAIN servers']_vars

\* A socket and a listener have been closed while other tasks run on: a
\* second close of either id, or a close of the one as the other kind, is the
\* claim's case.
C12_Witness ==
  \E c \in ConnSlots, l \in ListenerSlots :
    /\ Removed(c) /\ ppc[c] = "cancelled"
    /\ cpc[l] = "done" /\ server_id[l] \notin DOMAIN servers
    /\ \E d \in ConnSlots : d # c /\ Registered(d) /\ ppc[d] = "read"

\* C13: the first message of a listener (so of every listener created with
\* port 0) is its Listening event, the port in it is not 0 and is the port
\* that listener_address returns for the listener's id whenever it succeeds;
\* and what listener_address returns for a registered listener never changes.
C13_ListeningPortIsAddress ==
  /\ [](\A l \in ListenerSlots : cpc[l] # "idle" =>
          /\ chan[l] # <<>>
          /\ chan[l][1].type = "listening"
          /\ chan[l][1].serverId = server_id[l]
          /\ chan[l][1].port # 0
          /\ ServerAddress(server_id[l]).ok =>
               ServerAddress(server_id[l]).port = chan[l][1].port)
  /\ [][\A id \in DOMAIN servers \cap DOMAIN servers' :
          ServerAddress(id)' = ServerAddress(id)]_vars

\* Two listeners created with port 0 are registered; each got a port of its
\* own from the system, and listener_address returns it.
C13_Witness ==
  /\ \A l \in ListenerSlots :
       /\ cpc[l] = "done"
       /\ chan[l][1].port \in EphemeralPorts
       /\ ServerAddress(server_id[l]) = [ok |-> TRUE, port |-> chan[l][1].port]
  /\ \A l, k \in ListenerSlots : l # k => chan[l][1].port # chan[k][1].port

\* The listener of slot l was closed by close_listener: only that aborts its
\* accept task.
ListenerClosed(l) == aabort[l] \/ apc[l] = "cancelled"

\* C14: listener_address(L) succeeds exactly when L is in the listener
\* registry, and then returns the port recorded when L was bound; it fails for
\* an id never allocated, a socket id and a listener closed by close_listener;
\* and the call changes nothing.
C14_AddressIffRegistered ==
  /\ [](\A id \in IdChoices :
          /\ ServerAddress(id).ok <=> id \in DOMAIN servers
          /\ ServerAddress(id).ok =>
               \E l \in ListenerSlots :
                 /\ server_id[l] = id
                 /\ cpc[l] = "done"
                 /\ ServerAddress(id).port = local_port[l]
          /\ id = U32Zero => ~ServerAddress(id).ok
          /\ (\E c \in ConnSlots : socket_id[c] = id) => ~ServerAddress(id).ok
          /\ (\E l \in ListenerSlots : server_id[l] = id /\ ListenerClosed(l))
               => ~ServerAddress(id).ok)
  /\ [][\A id \in IdChoices : tcp_server_address(id) => UNCHANGED vars]_vars

\* One listener is registered, another was closed, and a socket id exists:
\* listener_address succeeds for the first and fails for the other two ids.
C14_Witness ==
  \E l, k \in ListenerSlots, c \in ConnSlots :
    /\ ServerAddress(server_id[l]).ok
    /\ cpc[k] = "done" /\ ListenerClosed(k)
    /\ ~ServerAddress(server_id[k]).ok
    /\ cstate[c] = "accepted"
    /\ ~ServerAddress(socket_id[c]).ok

\* C15: a send whose id is not in the socket registry when it looks it up (a
\* listener id included) ends at once with NotFound: it takes no writer,
\* writes no byte and leaves the registries, the counter and the channels as
\* they are; and it never writes afterwards.
C15_UnknownSendNotFound ==
  /\ [][\A s \in SendSlots :
          (SendStarts(s) /\ starget'[s] \notin DOMAIN sockets) =>
            /\ sresult'[s] = "NotFound"
            /\ spc'[s] = "done"
            /\ sconn'[s] = 0
            /\ UNCHANGED <<wire, wlock, servers, sockets, next_id, allocated,
                           chan, rchan, lvars, cvars>>]_vars
  /\ [](\A s \in SendSlots : sresult[s] = "NotFound" =>
          /\ spc[s] = "done" /\ sconn[s] = 0 /\ swritten[s] = 0
          /\ \A c \in ConnSlots : BlockOf(c, s) = {} /\ wlock[c] # s)

\* A send addressed to the id of a registered listener got NotFound, while a
\* socket is registered.
C15_Witness ==
  \E s \in SendSlots :
    /\ sresult[s] = "NotFound"
    /\ starget[s] \in DOMAIN servers
    /\ sockets # <<>>

\* C16: a create_listener that fails (the address does not parse, or the bind
\* fails) changes nothing. So every id taken from the counter went to a
\* listener that was bound or to an accepted connection, a listener slot whose
\* create has not succeeded has no id, no event and no accept task, the
\* registry holds only listeners whose create returned, and no ListenError
\* event is ever sent.
C16_FailedCreateLeavesNoTrace ==
  /\ [][\A l \in ListenerSlots, host \in Hosts, port \in RequestedPorts :
          tcp_server_create_fail(l, host, port) => UNCHANGED vars]_vars
  /\ [](/\ Len(allocated) =
             Cardinality({l \in ListenerSlots : cpc[l] # "idle"})
               + Cardinality({c \in ConnSlots : cstate[c] = "accepted"})
        /\ \A l \in ListenerSlots :
             /\ cpc[l] = "idle" =>
                  /\ server_id[l] = None /\ local_port[l] = 0
                  /\ apc[l] = "none" /\ chan[l] = <<>>
             /\ \A i \in DOMAIN chan[l] : chan[l][i].type \in {"listening", "accept"}
        /\ \A id \in DOMAIN servers : cpc[servers[id]] = "done")

\* Port 8080 is held by the first listener and the second create has not
\* succeeded: a create on 8080 fails at the bind, one with a host name fails
\* at the parse.
C16_Witness ==
  /\ load.listeners = 2
  /\ cpc[1] = "done" /\ local_port[1] = 8080 /\ ListenerOpen(1)
  /\ cpc[2] = "idle"
  /\ BoundPort(8080) = 0
  /\ ENABLED tcp_server_create_fail(2, "127.0.0.1", 8080)
  /\ ENABLED tcp_server_create_fail(2, "localhost", 0)

\* The connection of slot c is closed towards the peer: tokio::io::split
\* gives two halves of one stream, which is closed when both are dropped. The
\* read half goes with the read task; the write half is dropped with the last
\* clone of its Arc: the handle (in the registry, or with the accept task
\* until it has inserted it) and the sends that took a clone.
ConnClosed(c) ==
  /\ cstate[c] = "accepted"
  /\ ppc[c] \in {"done", "cancelled"}
  /\ ~Registered(c)
  /\ \A l \in ListenerSlots : ~(acur[l] = c /\ apc[l] = "insert")
  /\ \A s \in SendSlots : ~(sconn[s] = c /\ spc[s] \in {"lock", "write", "flush"})

C18_ListenerLeavesOnlyByClose ==
  [][/\ \A id \in DOMAIN servers :
          id \notin DOMAIN servers' => tcp_server_close(id)
     /\ \A l \in ListenerSlots :
          (apc[l] \in {"accept", "insert"} /\ apc'[l] \notin {"accept", "insert"})
            => /\ apc'[l] = "cancelled"
               /\ aabort[l] \/ tcp_server_close(server_id[l])
     /\ \A id \in IdChoices :
          tcp_server_close(id) => (chan' = chan /\ rchan' = rchan)]_vars

\* A listener is registered and its accept task waits in accept() after a
\* socket it accepted has closed itself; an accept error can come next.
C18_Witness ==
  \E l \in ListenerSlots, c \in ConnSlots :
    /\ server_id[l] \in DOMAIN servers
    /\ apc[l] = "accept"
    /\ cstate[c] = "accepted" /\ clis[c] = l
    /\ Removed(c) /\ ppc[c] = "done"
    /\ ENABLED accept_task_error(l)

\* The connection of slot c has been accepted and its Accept event sent.
AcceptEmitted(c) ==
  cstate[c] = "accepted" /\ AcceptsOf(clis[c], socket_id[c]) # {}

\* The listener the connection of slot c came to was registered and is no
\* longer: it was closed.
ListenerGone(c) ==
  /\ clis[c] # 0
  /\ cpc[clis[c]] = "done"
  /\ server_id[clis[c]] \notin DOMAIN servers

\* C19: an accept error changes nothing (no event, no id, nothing registered,
\* the listener stays), and every connection waiting in the backlog of a
\* listener is accepted and its Accept event sent in the end, unless the
\* listener is closed.
C19_AcceptErrorIsTransient ==
  /\ [][\A l \in ListenerSlots : accept_task_error(l) => UNCHANGED vars]_vars
  /\ \A c \in ConnSlots :
       (cstate[c] = "pending") ~> (AcceptEmitted(c) \/ ListenerGone(c))

\* One connection has been accepted, a second waits in the backlog of the
\* same listener, which is registered, and an accept error can come first.
C19_Witness ==
  \E c, d \in ConnSlots :
    /\ AcceptEmitted(c)
    /\ cstate[d] = "pending" /\ clis[d] = clis[c]
    /\ server_id[clis[d]] \in DOMAIN servers
    /\ ENABLED accept_task_error(clis[d])

\* close_socket was called on the registered socket of slot c: only that
\* aborts its read task.
ExplicitlyClosed(c) == pabort[c] \/ ppc[c] = "cancelled"

HasClose(c, err) ==
  \E i \in DOMAIN rchan[c] : rchan[c][i] = Close(socket_id[c], err)

ErrorThenClose(c) ==
  \E i \in DOMAIN rchan[c] :
    /\ rchan[c][i] = Error(socket_id[c])
    /\ i < Len(rchan[c])
    /\ rchan[c][i + 1] = Close(socket_id[c], TRUE)

\* C20: for an accepted socket that is not explicitly closed, a half-close of
\* the peer leads to Close{hadError: false} (unless the connection is reset
\* before the end of the stream is read), and a read that fails leads to
\* Error and then Close{hadError: true}; the read task leaves its loop only with
\* one of the two sent.
C20_PumpEmitsClose ==
  /\ [][\A c \in ConnSlots :
          (ppc[c] \in {"read", "errclose"} /\ ppc'[c] = "cleanup") =>
            (HasClose(c, FALSE)' \/ ErrorThenClose(c)')]_vars
  /\ \A c \in ConnSlots :
       (cstate[c] = "accepted" /\ peerState[c] = "shut")
         ~> (HasClose(c, FALSE) \/ peerState[c] = "reset" \/ ExplicitlyClosed(c))
  /\ \A c \in ConnSlots :
       (ppc[c] = "read" /\ peerState[c] = "reset")
         ~> (ErrorThenClose(c) \/ ExplicitlyClosed(c))

\* One socket ended with Close{hadError: false} after the peer's half-close,
\* another with Error and Close{hadError: true} after a reset; neither was
\* closed by the consumer.
C20_Witness ==
  \E c, d \in ConnSlots :
    /\ HasClose(c, FALSE) /\ peerState[c] = "shut" /\ ~ExplicitlyClosed(c)
    /\ ErrorThenClose(d) /\ peerState[d] = "reset" /\ ~ExplicitlyClosed(d)

\* The step leaves every socket but that of slot c, and every listener, as
\* they are: their registrations, tasks and events.
OthersUntouched(c) ==
  /\ UNCHANGED <<servers, lvars, chan, next_id, allocated>>
  /\ \A id \in DOMAIN sockets :
       id # socket_id[c] => (id \in DOMAIN sockets' /\ sockets'[id] = sockets[id])
  /\ \A id \in DOMAIN sockets' : id \in DOMAIN sockets
  /\ \A d \in ConnSlots \ {c} :
       /\ rchan'[d] = rchan[d]
       /\ ppc'[d] = ppc[d] /\ pabort'[d] = pabort[d]
       /\ cstate'[d] = cstate[d] /\ socket_id'[d] = socket_id[d]
       /\ wire'[d] = wire[d] /\ wlock'[d] = wlock[d]

C22_DataFrameRoundTrip ==
  frame.pc = "sent" =>
    /\ Len(rchan[1]) = 1
    /\ rchan[1][1].type = "raw"
    /\ LET f == rchan[1][1].frame
           s == frame.id
           d == frame.data
       IN /\ Len(f) = 4 + Len(d)
          /\ \A i \in 1..4 : f[i] \in 0..255
          /\ f[1] * 256 + f[2] = s[1]
          /\ f[3] * 256 + f[4] = s[2]
          /\ from_be_bytes(SubSeq(f, 1, 4)) = s
          /\ SubSeq(f, 5, Len(f)) = d
          /\ \A i \in 1..Len(d) : f[4 + i] = d[i]

\* C22 witness: the frame of id 0x01020304 with two bytes of payload was sent.
C22_Witness ==
  /\ frame.pc = "sent"
  /\ frame.id = <<258, 772>>
  /\ Len(frame.data) = MaxFrameData
  /\ Len(rchan[1]) = 1

\* The ways a response body could carry the count n: one byte, one decimal
\* digit, or four bytes in either order.
CountEncodings(n) ==
  { <<n>>, <<48 + n>>, <<0, 0, 0, n>>, <<n, 0, 0, 0>> }

\* C23: a successful send(S, P) returns to its caller the number of bytes
\* written, Len(P): the body of the response is that number.
C23_SendReturnsByteCount ==
  \A s \in SendSlots :
    sresult[s] = "Ok" =>
      /\ Len(sresponse[s]) = 1
      /\ sresponse[s][1] \in CountEncodings(Len(spayload[s]))

\* The frame the protocol asks for: the length of the text as four bytes,
\* least significant first, then the text.
LengthPrefix(n) ==
  <<n % 256, (n \div 256) % 256, (n \div 65536) % 256, n \div 16777216>>

RECURSIVE FramesOf(_)
FramesOf(msgs) ==
  IF msgs = <<>> THEN <<>>
  ELSE Cat(Cat(FramesOf(SubSeq(msgs, 1, Len(msgs) - 1)),
               Bytes(LengthPrefix(Size(msgs[Len(msgs)])))),
           <<TextRun(msgs[Len(msgs)], 0, Size(msgs[Len(msgs)]))>>)

\* The response a request must get.
Answers(req, resp) ==
  LET action == IF "action" \in DOMAIN req THEN req.action ELSE "" IN
  CASE action = "ping" -> resp = [action |-> "pong"]
    [] action = "handshake" ->
         /\ DOMAIN resp = {"action", "version", "name"}
         /\ resp.action = "handshake"
         /\ resp.name = "ok200-host"
    [] action = "launch" ->
         /\ {"action", "ok"} \subseteq DOMAIN resp
         /\ resp.action = "launch"
    [] OTHER -> "error" \in DOMAIN resp /\ "action" \notin DOMAIN resp

\* C24: the host answers the well-formed requests on stdin one by one: the
\* requests it has taken are the first of those sent, each has its response
\* on stdout, framed, in the order of the requests, and the response of one
\* is written before the next is read; ping gets pong, handshake gets the
\* handshake naming ok200-host, an unknown or missing action gets an error
\* member and the loop goes on: unless a write to stdout fails, the host
\* leaves only when every request sent has its response.
C24_OneResponsePerRequest ==
  LET h == nm_host IN
  /\ Len(h.reqs) <= Len(h.sent)
  /\ \A i \in 1..Len(h.reqs) : h.reqs[i] = h.sent[i]
  /\ Len(h.resps) <= Len(h.reqs)
  /\ Len(h.reqs) - Len(h.resps) =
       (IF h.pc = "respond" \/ h.exit = "write_error" THEN 1 ELSE 0)
  /\ \A i \in 1..Len(h.resps) : Answers(h.reqs[i], h.resps[i])
  /\ h.exit # "write_error" => h.stdout = FramesOf(h.resps)
  /\ h.pc \in {"read", "respond"} =>
       StreamLen(h.stdin) =
         StreamLen(FramesOf(h.sent)) + StreamLen(TailBytes(h.tail))
           - StreamLen(FramesOf(h.reqs))
  /\ (h.pc = "exited" /\ h.exit # "write_error") =>
       (h.reqs = h.sent /\ Len(h.resps) = Len(h.sent))

\* C24 witness: an unknown action then a ping were sent; the host answered
\* the first with an error, went on, answered the second with pong, and left
\* at the end of the input.
C24_Witness ==
  /\ nm_host.pc = "exited"
  /\ nm_host.exit = "eof"
  /\ nm_host.sent = <<[action |-> "bogus"], [action |-> "ping"]>>
  /\ nm_host.resps =
       <<[error |-> "unknown action: bogus"], [action |-> "pong"]>>
  /\ nm_host.stdout = FramesOf(nm_host.resps)

\* C25: when stdin ends at a message boundary read_message_from returns None,
\* not an error, and the host leaves its loop having written no further
\* response; it also leaves after a read error or a write error and does
\* nothing after it left; so every run, whose input ends, reaches the exit.
C25_HostTerminates ==
  /\ [](\A ends \in {"eof", "error"} :
          read_message_from(<<>>, ends).res =
            (IF ends = "eof" THEN "None" ELSE "Err"))
  /\ []((nm_host.pc = "read" /\ nm_host.stdin = <<>> /\ nm_host.ends = "eof")
          => read_message_from(nm_host.stdin, nm_host.ends).res = "None")
  /\ []((nm_host.pc = "exited" /\ nm_host.tail = "none"
           /\ nm_host.ends = "eof" /\ nm_host.exit # "write_error")
          => /\ nm_host.exit = "eof"
             /\ nm_host.err = ""
             /\ Len(nm_host.resps) = Len(nm_host.sent)
             /\ nm_host.stdout = FramesOf(nm_host.resps))
  /\ [](nm_host.exit # "" <=> nm_host.pc = "exited")
  /\ [][nm_host.pc = "exited" => nm_host' = nm_host]_vars
  /\ <>(nm_host.pc = "exited")

\* C25 witness: two requests were answered, the input ended after the second
\* frame, and the host left on None.
C25_Witness ==
  /\ nm_host.pc = "exited"
  /\ nm_host.exit = "eof"
  /\ nm_host.tail = "none"
  /\ nm_host.ends = "eof"
  /\ Len(nm_host.sent) = MaxRequests
  /\ Len(nm_host.resps) = MaxRequests
  /\ nm_host.stdin = <<>>

\* C26: messages whose texts are at most 1 MiB each, written one after the
\* other with write_message_to and read back with read_message_from, come
\* back the same and in the same order, and the read after the last returns
\* None; the buffer is then empty.
C26_FramingRoundTrip ==
  (rt.pc = "done" /\ \A i \in 1..Len(rt.all) : Size(rt.all[i]) <= MaxMessage)
    => /\ Len(rt.got) = Len(rt.all) + 1
       /\ \A i \in 1..Len(rt.all) :
            rt.got[i] = [res |-> "Some", value |-> <<rt.all[i]>>]
       /\ rt.got[Len(rt.got)] = [res |-> "None", value |-> <<>>]
       /\ rt.buf = <<>>

\* C26 witness: a message of exactly 1 MiB and a small one were written and
\* read back, and the third read returned None.
C26_Witness ==
  /\ rt.pc = "done"
  /\ Len(rt.all) = MaxRtMessages
  /\ rt.all[1] = PingOfSize(MaxMessage)
  /\ Size(rt.all[1]) = MaxMessage
  /\ Len(rt.got) = MaxRtMessages + 1
  /\ rt.got[1].res = "Some"

\* The four bytes of a length prefix say more than 1024 * 1024.
Exceeds(b) ==
  \/ b[4] > 0
  \/ b[3] > 16
  \/ b[3] = 16 /\ (b[2] > 0 \/ b[1] > 0)

\* C27: a length prefix above 1 MiB makes read_message_from fail with
\* InvalidData having taken the four bytes of the prefix and nothing of the
\* body; a length up to and including 1 MiB is not refused, its body is read
\* and, when it is the text of a value, the message is returned; after the
\* refusal the host is out of its loop and has written no response to it.
C27_TooLargeIsRejected ==
  LET h == nm_host IN
  /\ (h.pc = "read" /\ StreamLen(h.stdin) >= 4) =>
       LET b == Explode(Take(h.stdin, 4))
           r == read_message_from(h.stdin, h.ends)
           n == b[1] + 256 * b[2] + 65536 * b[3]
       IN IF Exceeds(b)
          THEN /\ r.res = "Err"
               /\ r.kind = "InvalidData"
               /\ r.rest = Drop(h.stdin, 4)
          ELSE /\ r.text # "message too large"
               /\ StreamLen(h.stdin) >= 4 + n => r.rest = Drop(h.stdin, 4 + n)
               /\ (StreamLen(h.stdin) >= 4 + n
                    /\ from_slice(Take(Drop(h.stdin, 4), n)) # <<>>)
                   => r.res = "Some"
  /\ h.err = "message too large" =>
       /\ h.pc = "exited"
       /\ h.exit = "read_error"
       /\ h.tail \in {"too_large", "too_large_by_one", "max_u32"}
       /\ h.reqs = h.sent
       /\ Len(h.resps) = Len(h.sent)
       /\ h.stdout = FramesOf(h.resps)
       /\ StreamLen(h.stdin) = StreamLen(TailBytes(h.tail)) - 4

\* C27 witness: a request of exactly 1 MiB was taken and answered, then a
\* frame of 1 MiB + 1 was refused with its body and the frame after it still
\* on stdin.
C27_Witness ==
  /\ nm_host.err = "message too large"
  /\ nm_host.tail = "too_large_by_one"
  /\ Len(nm_host.sent) >= 1
  /\ nm_host.sent[1] = PingOfSize(MaxMessage)
  /\ nm_host.resps[1] = [action |-> "pong"]
  /\ StreamLen(nm_host.stdin) > MaxMessage

\* C28: once a call of get_or_create_cfu_id has returned an id, every call
\* made later returns that id and does not write the file again.
C28_IdIsStable ==
  \A c \in Callers :
    /\ Len(cfu.ret[c]) = 2 => \A id \in cfu.after[c] : cfu.ret[c][2] = id
    /\ cfu.after[c] # {} => cfu.pc[c] \notin {"create", "write"}

\* C29: the read task of socket S does nothing before S is in the registry:
\* no data frame, Error or Close of S is sent, and the task is not at its
\* own removal or past it, while the accept loop has not yet inserted S.
C29_PumpStartsAfterInsert ==
  \A c \in ConnSlots :
    (rchan[c] # <<>> \/ ppc[c] \in {"errclose", "cleanup", "done"})
      => Inserted(c)

\* C30: no Accept event of listener L is sent while the create call has not
\* yet put L in the registry.
C30_AcceptAfterRegistration ==
  \A l \in ListenerSlots :
    (\E i \in DOMAIN chan[l] : chan[l][i].type = "accept")
      => cpc[l] = "done"

\* The Listening event of the listener of slot l is on its channel.
ListeningEmitted(l) ==
  \E i \in DOMAIN chan[l] : chan[l][i].type = "listening"

\* C32: once close_socket(S) (close_listener(L)) has returned, the id is never
\* in the registry afterwards, also when the close came between the Accept
\* (Listening) event and the insert. A close of an id that is out of the
\* registry returns Ok and changes nothing, so it may have returned in any
\* state where the event is sent and the id is out of the registry: from such
\* a state on the id stays out.
C32_ClosedIdStaysOut ==
  [][/\ \A c \in ConnSlots :
          (load.closes /\ AcceptEmitted(c) /\ socket_id[c] \notin DOMAIN sockets)
            => socket_id[c] \notin DOMAIN sockets'
     /\ \A l \in ListenerSlots :
          (load.closes /\ ListeningEmitted(l)
             /\ server_id[l] \notin DOMAIN servers)
            => server_id[l] \notin DOMAIN servers']_vars

\* C33: in a run where the consumer closes nothing, a send to socket S that
\* starts when the Accept event of S is sent and no Close event of S is, does
\* not fail with NotFound.
C33_SendAfterAcceptFindsSocket ==
  [][\A s \in SendSlots, c \in ConnSlots :
       (/\ ~load.closes
        /\ SendStarts(s)
        /\ starget'[s] = socket_id[c]
        /\ AcceptEmitted(c)
        /\ ~CloseEmitted(socket_id[c]))
         => sresult'[s] # "NotFound"]_vars

\* C34: in a run where the consumer closes nothing, listener_address(L)
\* succeeds in every state where the Listening event of L is sent.
C34_AddressAfterListening ==
  \A l \in ListenerSlots :
    (~load.closes /\ ListeningEmitted(l)) => ServerAddress(server_id[l]).ok

\* C35: a read task in its loop whose socket has its Accept event sent and
\* has not been put in the registry has an accept loop that holds the handle
\* and is about to insert it.
C35_RunningPumpIsReachable ==
  \A c \in ConnSlots :
    (AcceptEmitted(c) /\ ppc[c] \in {"read", "errclose"} /\ ~Inserted(c))
      => (apc[clis[c]] = "insert" /\ acur[clis[c]] = c)

\* C36: once close_socket(S) has returned for a registered S, the read task
\* of S sends nothing more: no data frame, no Error, no Close.
C36_NoEventAfterClose ==
  [][\A c \in ConnSlots : ExplicitlyClosed(c) => rchan'[c] = rchan[c]]_vars

\* C37: once close_listener(L) has returned for a registered L, no Accept
\* event of L is sent and no socket L accepted is put in the socket registry.
C37_NoAcceptAfterListenerClose ==
  [][\A l \in ListenerSlots : ListenerClosed(l) =>
       /\ chan'[l] = chan[l]
       /\ \A c \in ConnSlots :
            (clis[c] = l /\ ~Registered(c)) => ~Registered(c)']_vars

\* Every command that looks the id up fails with the not-found error and
\* leaves the files as they are.
AllNotFound(id) ==
  /\ \A length \in {MaxFileLen}, position \in {0, 1} :
       Read(id, length, position) = FsResult("NotFound", <<>>, fs.files)
  /\ \A position \in {0, 1}, failed \in BOOLEAN :
       Write(id, position, <<7>>, failed) = FsResult("NotFound", <<>>, fs.files)
  /\ \A length \in {0} :
       Truncate(id, length) = FsResult("NotFound", <<>>, fs.files)
  /\ Sync(id) = FsResult("NotFound", <<>>, fs.files)

\* The step is a read, write, truncate or sync on the id.
FsCommandOn(id) ==
  \/ \E length \in {MaxFileLen}, position \in {0, 1} :
       fs_read(id, length, position)
  \/ \E position \in {0, 1}, failed \in BOOLEAN :
       fs_write(id, position, <<7>>, failed)
  \/ \E length \in {0} : fs_truncate(id, length)
  \/ fs_sync(id)

\* C39 as claimed: fs_open returns an id it has not returned before, which
\* maps to the opened file until fs_close(id); for an id that was closed or
\* never returned every read, write, truncate and sync fails with the
\* not-found error and changes nothing, and fs_close of it changes nothing.
C39_ClosedIdNeverFound ==
  [][/\ \A o \in fs.opening : fs_open_insert(o) =>
          /\ o.id \notin fs.returned
          /\ o.id \in DOMAIN fs'.handles
          /\ fs'.handles[o.id] = [path |-> o.path, mode |-> o.mode]
     /\ \A id \in DOMAIN fs.handles :
          (id \notin DOMAIN fs'.handles \/ fs'.handles[id] # fs.handles[id])
            => fs_close(id)
     /\ \A id \in FsIdChoices :
          (id \in fs.closed \/ id \notin fs.returned) =>
            /\ AllNotFound(id)
            /\ FsCommandOn(id) => fs' = fs
            /\ fs_close(id) =>
                 (fs'.handles = fs.handles /\ fs'.files = fs.files)]_vars

\* C39 as amended: fs_open returns the counter's value, an id it has not
\* returned before as long as the counter has not wrapped, and the id maps to
\* the opened file until fs_close(id) or, after a wrap, until fs_open returns
\* the id again; fs_close(id) takes the id out of the table and leaves the
\* other handles and the files as they are; and for an id that is not in the
\* table (closed and not returned again, or never returned) every read,
\* write, truncate and sync fails with the not-found error and changes
\* nothing, and fs_close of it changes nothing.
C39_AbsentIdNotFound ==
  /\ [](\A id \in FsIdChoices :
          /\ id \notin DOMAIN fs.handles => AllNotFound(id)
          /\ (id \in fs.closed /\ ~fs.wrapped) => id \notin DOMAIN fs.handles)
  /\ [][fs' # fs =>
          /\ \A o \in fs.opening : fs_open_insert(o) =>
               /\ ~fs.wrapped => o.id \notin fs.returned
               /\ o.id \in DOMAIN fs'.handles
               /\ fs'.handles[o.id] = [path |-> o.path, mode |-> o.mode]
          /\ \A id \in DOMAIN fs.handles :
               (id \notin DOMAIN fs'.handles \/ fs'.handles[id] # fs.handles[id])
                 => \/ fs_close(id)
                    \/ /\ fs.wrapped
                       /\ \E o \in fs.opening : o.id = id /\ fs_open_insert(o)
          /\ \A id \in FsIdChoices :
               /\ fs_close(id) =>
                    /\ id \notin DOMAIN fs'.handles
                    /\ fs'.files = fs.files
                    /\ \A k \in DOMAIN fs.handles \ {id} :
                         /\ k \in DOMAIN fs'.handles
                         /\ fs'.handles[k] = fs.handles[k]
               /\ id \notin DOMAIN fs.handles =>
                    /\ ~FsCommandOn(id)
                    /\ fs_close(id) =>
                         (fs'.handles = fs.handles /\ fs'.files = fs.files)]_vars

\* Two ids were returned and one of them closed: the closed id and the id 9
\* that was never returned are not found, while the other id still reads its
\* file.
C39_Witness ==
  \E id \in fs.closed, k \in DOMAIN fs.handles :
    /\ ~fs.wrapped
    /\ id \notin DOMAIN fs.handles
    /\ AllNotFound(id)
    /\ <<0, 9>> \notin fs.returned /\ AllNotFound(<<0, 9>>)
    /\ Read(k, MaxFileLen, 0).res = "Ok"
    /\ Read(k, MaxFileLen, 0).out = fs.files[fs.handles[k].path].text
    /\ Read(k, MaxFileLen, 0).out # <<>>

\* The map operation a task performs with the guard of a registry in hand.
MapStep(x) == IF x = "servers" THEN "in_servers" ELSE "in_sockets"

\* C31: no task is in a network call (bind, accept, read, write, flush) while
\* it holds the servers lock or the sockets lock, and whoever holds one of
\* them is at its single lookup, insert or remove, a step that waits for
\* nothing, so that a call that never returns on one socket keeps no registry
\* operation waiting.
C31_NoIoUnderRegistryLock ==
  /\ \A t \in LkTasks : lk.pc[t] \in IoWaits => Held(t) \cap Registries = {}
  /\ \A x \in Registries :
       lk.holder[x] # "none" => lk.pc[lk.holder[x]] = MapStep(x)

\* C31 witness: a send is in a write that has not returned, with the writer
\* in hand, while tcp_close holds the sockets lock for its remove.
C31_Witness ==
  /\ lk.pc["send1"] = "write"
  /\ lk.holder["writer"] = "send1"
  /\ lk.holder["sockets"] = "close"
  /\ lk.pc["close"] = "in_sockets"

\* A task waits for a lock with another lock in hand.
HoldAndWait(t) == lk.pc[t] \in LockWaits /\ Held(t) # {}

\* The command, invoked and at any of its steps, returns.
Returns(t) == (lk.pc[t] # "done") ~> (lk.pc[t] = "done")

\* The write and the flush of a send do not last for ever.
IoCompletes(s) ==
  /\ []<>(lk.pc[s] # "write")
  /\ []<>(lk.pc[s] # "flush")

\* C38 as stated, its last clause: a send returns whenever its own write and
\* its own flush complete.
C38_SendReturnsIfOwnIoCompletes ==
  \A s \in LkSends : IoCompletes(s) => Returns(s)

\* C38: no task waits for a lock with another lock in hand; under fair
\* scheduling tcp_server_create, tcp_close, tcp_server_close and
\* tcp_server_address return, whatever the network does; and the sends
\* return when the writes and flushes on the socket complete, those of the
\* sends that hold the writer before them included.
C38_DeadlockFree ==
  /\ [](\A t \in LkTasks : ~HoldAndWait(t))
  /\ \A t \in LkCommands \ LkSends : Returns(t)
  /\ (\A u \in LkSends : IoCompletes(u)) => (\A s \in LkSends : Returns(s))

\* C38 witness: a send waits for the writer that the other send holds in its
\* flush, and the read task waits for the sockets lock that tcp_close holds;
\* none of the waiting tasks holds a lock.
C38_Witness ==
  /\ lk.pc["send2"] = "lock_writer"
  /\ lk.holder["writer"] = "send1"
  /\ lk.pc["send1"] = "flush"
  /\ lk.pc["recv"] = "lock_sockets"
  /\ lk.holder["sockets"] = "close"

====
